---- MODULE Spec2Model ----
(***************************************************************************)
(* Orchestration state machine of the proposal builder:                    *)
(*   core/orchestrator.py         ProposalOrchestrator        ("full")     *)
(*   core/simple_orchestrator.py  SimpleProposalOrchestrator  ("simple")   *)
(* with the agents of agents/specialized_agents.py (full) and              *)
(* agents/simple_agents.py (simple).  One step of the model is one agent   *)
(* call of generate_proposal together with the branch taken on its answer. *)
(* The text returned by the language model is an input: every step draws   *)
(* it from a small set of reply classes.                                   *)
(* Scores are kept times ten and fractions as percentages, so that all     *)
(* arithmetic is integer arithmetic.                                       *)
(* Spec and FairSpec are the runs of an orchestrator instance.             *)
(* FunctionSpec calls one function of an agent or of the data model on     *)
(* arguments of its own, outside any run.                                  *)
(***************************************************************************)
EXTENDS Integers, Sequences, FiniteSets, TLC

VARIABLES
    variant,             \* which orchestrator class the instance is
    max_revisions,       \* self.max_revisions
    state,               \* self.state
    revision_count,      \* self.revision_count
    request,             \* the ProposalRequest of the run in flight
    pc,                  \* position of generate_proposal
    cost_caller,         \* who called cost validation: the flow or the technical phase
    current_plan,        \* context.current_plan / the local plan
    current_proposal,    \* context.current_proposal / the local proposal_text
    response,            \* the AgentResponse the current loop iteration acts on
    output,              \* the ProposalOutput returned to the caller
    thrown,              \* the exception a phase of the run let escape
    raised,              \* the exception generate_proposal raised to its caller
    runs,                \* generate_proposal calls started on this instance
    calls,               \* agent calls made in this run, per agent
    reinvoked,           \* feedback-driven translator / writer calls made on this
                         \* instance, by the phase that asked for them
    all_revise,          \* every decision of this run so far asked for a revision
    last_translated,     \* id of the plan the translator returned last in this run
    last_written,        \* id of the text the writer returned last in this run
    validated,           \* id of the plan handed to the latest cost validation
    translator_feedback, \* costing_feedback of the latest translator call
    writer_feedback,     \* reviewer_feedback of the latest writer call
    applied              \* the latest call of an agent or model function made
                         \* outside a run: its name, its arguments and its result

\* the variables of an orchestrator instance and its run
run_vars == <<variant, max_revisions, state, revision_count, request, pc, cost_caller,
              current_plan, current_proposal, response, output, thrown, raised, runs,
              calls, reinvoked, all_revise, last_translated, last_written, validated,
              translator_feedback, writer_feedback>>

vars == <<run_vars, applied>>

-----------------------------------------------------------------------------
(* Bounds of the model *)

MaxRevisionCycles == 2
MaxRuns == 2

(* Inputs of a run *)

None == -1
Budget == 1000
HourlyRate == 15
PlanCosts == {600, 900, 1200, 1400}

(* Program constants *)

DefaultErrorMargin == 10
RevisionExcessPct == 30
AdvisoryPct == 80
DefaultScore == 70
FallbackReviewScore == 75
FallbackWinProbability == 75
NoReviewDataScore == 0
NoReviewDataWinProbability == 0

-----------------------------------------------------------------------------
(* ProcessState *)

INITIALIZING == "initializing"
TRANSLATING_REQUIREMENTS == "translating_requirements"
VALIDATING_COSTS == "validating_costs"
VALIDATING_TECHNICAL == "validating_technical"
WRITING_PROPOSAL == "writing_proposal"
REVIEWING_PROPOSAL == "reviewing_proposal"
COMPLETED == "completed"
FAILED == "failed"

ProcessState ==
    {INITIALIZING, TRANSLATING_REQUIREMENTS, VALIDATING_COSTS, VALIDATING_TECHNICAL,
     WRITING_PROPOSAL, REVIEWING_PROPOSAL, COMPLETED, FAILED}

-----------------------------------------------------------------------------
(* Values *)

NoPlan ==
    [id |-> 0, tasks |-> <<>>, total_hours |-> 0, total_cost |-> 0,
     mandatory_cost |-> 0, optional_cost |-> 0, fallback |-> FALSE]
NoFeedback == [kind |-> "none", about |-> 0]
NoText == [id |-> 0, marker |-> FALSE]
NoResponse ==
    [requires_revision |-> FALSE, feedback |-> NoFeedback, overall_score |-> None,
     win_probability |-> None, notes |-> <<>>, reviewed |-> 0]
NoOutput == [proposal_text |-> NoText, execution_plan |-> NoPlan, quality_score |-> None,
             estimated_win_probability |-> None, recommendations |-> <<>>,
             reviewed |-> 0]
NoCalls == [translate |-> 0, cost |-> 0, technical |-> 0, write |-> 0, review |-> 0]
NoReinvocations == [cost |-> 0, technical |-> 0, review |-> 0]
NotApplied == [op |-> "none", arg |-> <<>>, res |-> <<>>]

-----------------------------------------------------------------------------
(* Strings whose characters matter are sequences of one-character strings *)

UpperCase == <<"A", "B", "C", "D", "E", "F", "G", "H", "I", "J", "K", "L", "M", "N", "O", "P", "Q", "R", "S", "T", "U", "V", "W", "X", "Y", "Z">>
LowerCase == <<"a", "b", "c", "d", "e", "f", "g", "h", "i", "j", "k", "l", "m", "n", "o", "p", "q", "r", "s", "t", "u", "v", "w", "x", "y", "z">>

\* the lower-case form of every upper-case character
LowerOf ==
    [c \in {UpperCase[i] : i \in 1 .. Len(UpperCase)} |->
        LowerCase[CHOOSE i \in 1 .. Len(UpperCase) : UpperCase[i] = c]]

\* the lower-case form of one character
ToLower(c) == IF c \in DOMAIN LowerOf THEN LowerOf[c] ELSE c

\* str.lower()
lower(str) == [i \in 1 .. Len(str) |-> ToLower(str[i])]

\* str.replace(old, new) for one-character old and new
replace(str, old, new) == [i \in 1 .. Len(str) |-> IF str[i] = old THEN new ELSE str[i]]

\* the upper-case form of every lower-case character
UpperOf ==
    [c \in {LowerCase[i] : i \in 1 .. Len(LowerCase)} |->
        UpperCase[CHOOSE i \in 1 .. Len(LowerCase) : LowerCase[i] = c]]

\* str.upper()
upper(str) == [i \in 1 .. Len(str) |-> IF str[i] \in DOMAIN UpperOf THEN UpperOf[str[i]]
                                       ELSE str[i]]

\* sub in str
Contains(str, sub) ==
    \E i \in 1 .. (Len(str) - Len(sub) + 1) : SubSeq(str, i, i + Len(sub) - 1) = sub

\* str.split(sep) for a one-character sep: the list of the parts between the
\* occurrences of sep
RECURSIVE split(_, _)

split(str, sep) ==
    IF \A i \in 1 .. Len(str) : str[i] # sep THEN <<str>>
    ELSE LET first == CHOOSE i \in 1 .. Len(str) :
                         str[i] = sep /\ \A j \in 1 .. (i - 1) : str[j] # sep
         IN  <<SubSeq(str, 1, first - 1)>> \o split(SubSeq(str, first + 1, Len(str)), sep)

\* str.strip() of blanks
RECURSIVE strip(_)

strip(str) ==
    IF str = <<>> THEN str
    ELSE IF Head(str) = " " THEN strip(Tail(str))
    ELSE IF str[Len(str)] = " " THEN strip(SubSeq(str, 1, Len(str) - 1))
    ELSE str

DecimalDigits == <<"0", "1", "2", "3", "4", "5", "6", "7", "8", "9">>

DigitValue ==
    [c \in {DecimalDigits[i] : i \in 1 .. Len(DecimalDigits)} |->
        (CHOOSE i \in 1 .. Len(DecimalDigits) : DecimalDigits[i] = c) - 1]

\* the number a string of decimal digits writes
RECURSIVE Number(_)

Number(digits) ==
    IF digits = <<>> THEN 0
    ELSE 10 * Number(SubSeq(digits, 1, Len(digits) - 1)) + DigitValue[digits[Len(digits)]]

\* float(text) for a score, in tenths: blanks around the number are dropped, then
\* come an optional sign, digits and an optional point with digits; any other
\* text raises ValueError.  The model carries one digit after the point, and the
\* replies have no exponents, underscores, "inf" or "nan".
float(text) ==
    LET stripped == strip(text)
        signed == stripped # <<>> /\ Head(stripped) \in {"-", "+"}
        body == IF signed THEN Tail(stripped) ELSE stripped
        parts == split(body, ".")
        whole == parts[1]
        fraction == IF Len(parts) = 2 THEN parts[2] ELSE <<>>
        wellformed == /\ Len(parts) \in {1, 2}
                      /\ Len(whole) + Len(fraction) > 0
                      /\ Len(fraction) <= 1
                      /\ \A i \in 1 .. Len(whole) : whole[i] \in DOMAIN DigitValue
                      /\ \A i \in 1 .. Len(fraction) : fraction[i] \in DOMAIN DigitValue
        magnitude == 10 * Number(whole) + Number(fraction)
    IN  IF ~wellformed THEN [raises |-> "ValueError", value |-> 0]
        ELSE [raises |-> "none",
              value |-> IF signed /\ Head(stripped) = "-" THEN -magnitude ELSE magnitude]

\* the values of the Priority enumeration
MandatoryName == <<"m", "a", "n", "d", "a", "t", "o", "r", "y">>
OptionalName == <<"o", "p", "t", "i", "o", "n", "a", "l">>
NiceToHaveName == <<"n", "i", "c", "e", "_", "t", "o", "_", "h", "a", "v", "e">>

PriorityNames == {MandatoryName, OptionalName, NiceToHaveName}

\* Priority(value): the member of the enumeration with that value
Priority(value) ==
    CASE value = MandatoryName -> "mandatory"
      [] value = OptionalName -> "optional"
      [] value = NiceToHaveName -> "nice_to_have"
      [] OTHER -> "invalid"

-----------------------------------------------------------------------------
(* Replies of the language model, by class *)

FailureKinds == {"not_json", "bad_keys", "call_fails"}

\* the task list of a decoded plan costing total_cost: a mandatory, an optional
\* and a nice_to_have task at a rate of 10, priorities spelled as the prompt asks
ReplyTasks(total_cost) ==
    LET hours == total_cost \div 10
    IN  << [hours |-> hours \div 2, rate |-> 10, priority |-> MandatoryName],
           [hours |-> hours \div 4, rate |-> 10, priority |-> OptionalName],
           [hours |-> hours - (hours \div 2) - (hours \div 4), rate |-> 10,
            priority |-> NiceToHaveName] >>

\* a plan of three tasks, 60 hours at a rate of 50: a cost of 3000
ScenarioTasks ==
    << [hours |-> 30, rate |-> 50, priority |-> MandatoryName],
       [hours |-> 15, rate |-> 50, priority |-> OptionalName],
       [hours |-> 15, rate |-> 50, priority |-> NiceToHaveName] >>

TranslatorReplies ==
    [kind : {"json"},
     tasks : {ReplyTasks(total_cost) : total_cost \in PlanCosts} \cup {ScenarioTasks}]
        \cup [kind : FailureKinds, tasks : {<<>>}]

DecisionReplies ==
    [kind : {"json"}, success : BOOLEAN, requires_revision : BOOLEAN]
        \cup [kind : FailureKinds, success : {FALSE}, requires_revision : {FALSE}]

AdvisoryReplies == {"text", "call_fails"}

WriterReplies == {"text", "call_fails"}

\* a weakness (simple reviewer) or improvement suggestion (full reviewer)
Vague == <<"v", "a", "g", "u", "e">>

\* the scores a review may give, in tenths, each with the win percentage the
\* full reviewer's answer carries with it and the weaknesses or suggestions
\* listed with it; the last score is off the scale
ReviewScores == {[score |-> 50, win |-> 40, notes |-> <<Vague>>],
                 [score |-> 80, win |-> 60, notes |-> <<>>],
                 [score |-> 120, win |-> 150, notes |-> <<>>]}

FullReviewReplies ==
    {[kind |-> "json", requires_revision |-> requires_revision, score |-> answer.score,
      win |-> answer.win, notes |-> answer.notes] :
        requires_revision \in BOOLEAN, answer \in ReviewScores}
        \cup [kind : FailureKinds, requires_revision : {FALSE}, score : {0}, win : {0},
              notes : {<<>>}]

\* the simple reviewer's reply by what its lines hold: a SCORE line with a
\* number ("fields"), no SCORE line, a SCORE line without a number
\* ("unparseable"), or the error marker of a failed call
SimpleReviewReplies ==
    {[kind |-> "fields", score |-> answer.score, hire |-> hire, notes |-> answer.notes] :
        answer \in ReviewScores, hire \in {"yes", "no", "absent"}}
        \cup [kind : {"no_score"}, score : {0}, hire : {"yes", "no", "absent"},
              notes : {<<>>}]
        \cup [kind : {"unparseable", "call_fails"}, score : {0}, hire : {"absent"},
              notes : {<<>>}]

-----------------------------------------------------------------------------
(* models/core_models.py *)

\* hours, rate and the aggregates are Python floats.  A float holds MantissaBits
\* binary digits (the model keeps 11 where a double keeps 53): a number of at
\* most that many digits is held exactly, a longer one is rounded to the
\* nearest float, a tie to the float with an even mantissa.
MantissaBits == 11

Abs(x) == IF x < 0 THEN -x ELSE x

RECURSIVE Quantum(_)
\* the distance between neighbouring floats at the magnitude x
Quantum(x) == IF x < 2^MantissaBits THEN 1 ELSE 2 * Quantum(x \div 2)

\* the float an arithmetic result x is rounded to
Float(x) ==
    LET Round[v \in Int] ==
            LET q == Quantum(Abs(v))
                r == Abs(v) % q
                down == Abs(v) - r
                near == IF 2 * r < q THEN down
                        ELSE IF 2 * r > q THEN down + q
                        ELSE IF (down \div q) % 2 = 0 THEN down ELSE down + q
            IN  IF v < 0 THEN -near ELSE near
    IN  Round[x]

\* sum(): the values are added one by one from the left, starting at acc
FloatSum(acc, values) ==
    LET Sum[n \in 0 .. Len(values)] ==
            IF n = 0 THEN acc ELSE Float(Sum[n - 1] + values[n])
    IN  Sum[Len(values)]

\* TaskPlan.cost
Cost(task) == Float(task.hours * task.rate)

Costs(tasks) == [i \in 1 .. Len(tasks) |-> Cost(tasks[i])]

Hours(tasks) == [i \in 1 .. Len(tasks) |-> tasks[i].hours]

IsNotOptional(task) == task.priority # "optional"

\* task.priority == Priority.MANDATORY
IsMandatory(task) == task.priority = "mandatory"

\* ExecutionPlan.calculate_totals: the aggregates of the task list self.tasks
calculate_totals(tasks) ==
    LET totals[self_tasks \in {tasks}] ==
            LET total == FloatSum(0, Costs(self_tasks))
                mandatory == FloatSum(0, Costs(SelectSeq(self_tasks, IsMandatory)))
            IN  [total_hours |-> FloatSum(0, Hours(self_tasks)),
                 total_cost |-> total,
                 mandatory_cost |-> mandatory,
                 optional_cost |-> Float(total - mandatory)]
    IN  totals[tasks]

\* ExecutionPlan(tasks=..., total_hours=0, total_cost=0, mandatory_cost=0,
\* optional_cost=0): a plan as the translator constructs it
ExecutionPlan(id, tasks, fallback) ==
    [id |-> id, tasks |-> tasks, total_hours |-> 0, total_cost |-> 0,
     mandatory_cost |-> 0, optional_cost |-> 0, fallback |-> fallback]

TotalsNotComputed(plan) == plan

\* plan.calculate_totals(), which stores the aggregates in the plan: the new
\* aggregates and, for the rest, the fields of the plan
WithTotals(plan) == calculate_totals(plan.tasks) @@ plan

-----------------------------------------------------------------------------
(* agents/simple_agents.py and agents/specialized_agents.py: the translator *)

\* _build_execution_plan: priority_str, lower-cased, hyphens replaced by
\* underscores, and "mandatory" when the result is not a Priority value
NormalizePriority(raw) ==
    LET priority_str == replace(lower(raw), "-", "_")
    IN  IF priority_str \notin PriorityNames THEN MandatoryName ELSE priority_str

\* simple: the tasks _build_execution_plan builds from the decoded task data
SimpleTasks(task_data) ==
    [i \in 1 .. Len(task_data) |->
        [hours |-> task_data[i].hours, rate |-> task_data[i].rate,
         priority |-> Priority(NormalizePriority(task_data[i].priority))]]

\* full: TaskPlan(**task_data) takes the priority as it is spelled
FullTasks(task_data) ==
    [i \in 1 .. Len(task_data) |->
        [hours |-> task_data[i].hours, rate |-> task_data[i].rate,
         priority |-> Priority(task_data[i].priority)]]

\* a priority that is not a Priority value fails the validation of TaskPlan
ValidTasks(tasks) == \A i \in 1 .. Len(tasks) : tasks[i].priority # "invalid"

FallbackTasksAllMandatory(rate) ==
    [i \in 1 .. 5 |-> [hours |-> 10, rate |-> rate, priority |-> "mandatory"]]

\* the five tasks of _create_fallback_plan
FallbackTasks(rate) ==
    << [hours |-> 8, rate |-> rate, priority |-> "mandatory"],
       [hours |-> 20, rate |-> rate, priority |-> "mandatory"],
       [hours |-> 30, rate |-> rate, priority |-> "mandatory"],
       [hours |-> 12, rate |-> rate, priority |-> "mandatory"],
       [hours |-> 10, rate |-> rate, priority |-> "optional"] >>

\* BusinessTranslatorAgent._create_fallback_plan
FallbackPlan(id, rate) == WithTotals(ExecutionPlan(id, FallbackTasks(rate), TRUE))

\* simple: every failure of the call, of the decoding or of a key access is caught
\* and answered with the fallback plan
SimpleCreateExecutionPlan(id, rate, reply) ==
    [raises |-> "none",
     plan |-> IF reply.kind = "json"
              THEN WithTotals(ExecutionPlan(id, SimpleTasks(reply.tasks), FALSE))
              ELSE FallbackPlan(id, rate)]

\* full: crew.kickoff() is not guarded, a JSONDecodeError is turned into a
\* ValueError, a KeyError and the ValidationError of TaskPlan are not caught
FullCreateExecutionPlan(id, rate, reply) ==
    LET tasks == FullTasks(reply.tasks)
        raises == CASE reply.kind = "json" /\ ValidTasks(tasks) -> "none"
                    [] reply.kind = "json" -> "ValidationError"
                    [] reply.kind = "not_json" -> "ValueError"
                    [] reply.kind = "bad_keys" -> "KeyError"
                    [] OTHER -> "LLMError"
    IN  [raises |-> raises,
         plan |-> IF raises = "none" THEN WithTotals(ExecutionPlan(id, tasks, FALSE))
                  ELSE NoPlan]

create_execution_plan(id, rate, reply) ==
    IF variant = "simple" THEN SimpleCreateExecutionPlan(id, rate, reply)
    ELSE FullCreateExecutionPlan(id, rate, reply)

-----------------------------------------------------------------------------
(* The costing agent and the technical validator *)

\* "if max_budget": neither None nor 0
IsSet(max_budget) == max_budget # None /\ max_budget # 0

\* The budget arithmetic of the costing agent is float arithmetic on
\* max_budget, error_margin and total_cost.  The model computes it on integers,
\* with the fractions as percentages; on the budgets, error margins and costs
\* of this model both give the same comparisons.

WithinBudgetNoMargin(total_cost, max_budget, error_margin) ==
    IsSet(max_budget) => total_cost <= max_budget

\* within_budget of simple CostingAgent.validate_and_optimize_costs
WithinBudget(total_cost, max_budget, error_margin) ==
    IsSet(max_budget) => total_cost * 100 <= max_budget * (100 + error_margin)

ExcessAtThreshold(total_cost, max_budget) ==
    (total_cost - max_budget) * 100 >= RevisionExcessPct * max_budget

\* excess_percentage > 0.3
ExcessRequiresRevision(total_cost, max_budget) ==
    (total_cost - max_budget) * 100 > RevisionExcessPct * max_budget

AsksAnalysisFrom80Pct(total_cost, max_budget) ==
    IsSet(max_budget) /\ total_cost * 100 >= max_budget * AdvisoryPct

\* the supplementary analysis is asked for above 80% of the budget
AsksAnalysis(total_cost, max_budget) ==
    IsSet(max_budget) /\ total_cost * 100 > max_budget * AdvisoryPct

BudgetUtilizationOfUnitBudget(total_cost, max_budget) ==
    (total_cost * 100) \div (IF IsSet(max_budget) THEN max_budget ELSE 1)

\* budget_utilization of the response's data, in whole percent (the fraction of
\* the float is dropped); 0 when no budget is set
BudgetUtilization(total_cost, max_budget) ==
    IF IsSet(max_budget) THEN (total_cost * 100) \div max_budget ELSE 0

\* risk_level of the response's data; max_budget * 0.9 is evaluated whenever the
\* plan is within budget
RiskLevel(total_cost, max_budget, within) ==
    IF ~within THEN "high"
    ELSE IF max_budget = None THEN "TypeError"
    ELSE IF total_cost * 10 > max_budget * 9 THEN "medium"
    ELSE "low"

NextAgentAlwaysWriter(requires_revision) == "commercial_writer"

\* next_agent of the response
NextAgent(requires_revision) ==
    IF requires_revision THEN "business_translator" ELSE "commercial_writer"

\* simple CostingAgent.validate_and_optimize_costs.  The risk_level entry of the
\* response evaluates max_budget * 0.9 whenever the plan is within budget, which
\* is a TypeError when max_budget is None.
SimpleValidateCosts(plan, max_budget, error_margin, advisory) ==
    LET within == WithinBudget(plan.total_cost, max_budget, error_margin)
        revise == /\ IsSet(max_budget)
                  /\ ~within
                  /\ ExcessRequiresRevision(plan.total_cost, max_budget)
        asks == AsksAnalysis(plan.total_cost, max_budget)
        risk == RiskLevel(plan.total_cost, max_budget, within)
    IN  [raises |-> IF risk = "TypeError" THEN "TypeError" ELSE "none",
         success |-> within,
         data |-> [within_budget |-> within,
                   budget_utilization |->
                       BudgetUtilization(plan.total_cost, max_budget),
                   risk_level |-> risk,
                   requires_revision |-> revise],
         requires_revision |-> revise,
         feedback |-> IF revise THEN [kind |-> "overage", about |-> plan.id]
                      ELSE IF asks /\ advisory = "text"
                           THEN [kind |-> "analysis", about |-> plan.id]
                           ELSE NoFeedback,
         next_agent |-> NextAgent(revise),
         overall_score |-> None,
         llm_calls |-> IF asks THEN 1 ELSE 0]

\* full CostingAgent.validate_and_optimize_costs and
\* TechnicalValidatorAgent.validate_technical_feasibility: the decision is the
\* model's; only a JSONDecodeError is caught
FullDecision(about, reply) ==
    [raises |-> CASE reply.kind = "bad_keys" -> "KeyError"
                   [] reply.kind = "call_fails" -> "LLMError"
                   [] OTHER -> "none",
     success |-> reply.kind = "json" /\ reply.success,
     requires_revision |-> reply.kind = "json" /\ reply.requires_revision,
     feedback |-> IF reply.kind = "call_fails" THEN NoFeedback
                  ELSE IF reply.kind = "json" THEN [kind |-> "model", about |-> about]
                  ELSE [kind |-> "placeholder", about |-> about],
     overall_score |-> None,
     llm_calls |-> 1]

-----------------------------------------------------------------------------
(* The writer *)

\* simple CommercialWriterAgent.write_proposal: _build_writing_prompt reads
\* template.tone, which a template *name* (a str) does not have; a failing model
\* call becomes the error-marker text
SimpleWriteProposal(id, template, reply) ==
    [raises |-> IF template = "name" THEN "AttributeError" ELSE "none",
     text |-> [id |-> id, marker |-> reply = "call_fails"],
     llm_calls |-> IF template = "name" THEN 0 ELSE 1]

\* full CommercialWriterAgent.write_proposal: crew.kickoff() is not guarded
FullWriteProposal(id, template, reply) ==
    [raises |-> IF reply = "call_fails" THEN "LLMError" ELSE "none",
     text |-> [id |-> id, marker |-> FALSE],
     llm_calls |-> 1]

write_proposal(id, template, reply) ==
    IF variant = "simple" THEN SimpleWriteProposal(id, template, reply)
    ELSE FullWriteProposal(id, template, reply)

-----------------------------------------------------------------------------
(* The reviewer *)

ScoreLabel == <<"S", "C", "O", "R", "E", ":">>
WouldHireLabel == <<"W", "O", "U", "L", "D", "_", "H", "I", "R", "E", ":">>
Yes == <<"y", "e", "s">>

WeaknessesLabel == <<"W", "E", "A", "K", "N", "E", "S", "S", "E", "S", ":">>

\* the weakness the default review lists: "Review parsing failed"
ParsingFailed ==
    <<"R", "e", "v", "i", "e", "w", " ", "p", "a", "r", "s", "i", "n", "g", " ",
      "f", "a", "i", "l", "e", "d">>

\* str.split(sep, 1)[1] for a str that holds sep
AfterFirst(str, sep) ==
    LET first == CHOOSE i \in 1 .. Len(str) :
                     str[i] = sep /\ \A j \in 1 .. (i - 1) : str[j] # sep
    IN  SubSeq(str, first + 1, Len(str))

\* next((line for line in lines if label in line.upper()), '')
FirstWith(lines, label) ==
    LET labelled == {i \in 1 .. Len(lines) : Contains(upper(lines[i]), label)}
    IN  IF labelled = {} THEN <<>>
        ELSE lines[CHOOSE i \in labelled : \A j \in labelled : i <= j]

\* what _parse_review_response reads in the lines of the reply: the score is
\* float() of the text between the first colon of the SCORE line and the next
\* slash; the hire decision is whether the WOULD_HIRE line holds "yes"
ReviewFields(lines) ==
    LET score_line == FirstWith(lines, ScoreLabel)
        would_hire_line == FirstWith(lines, WouldHireLabel)
        weaknesses_line == FirstWith(lines, WeaknessesLabel)
        weaknesses == IF weaknesses_line = <<>> THEN <<>>
                      ELSE <<strip(AfterFirst(weaknesses_line, ":"))>>
        score_text == strip(split(score_line, ":")[2])
        score == float(split(score_text, "/")[1])
        hire == IF would_hire_line = <<>> THEN "absent"
                ELSE IF Contains(lower(would_hire_line), Yes) THEN "yes" ELSE "no"
    IN  IF score_line = <<>>
        THEN [kind |-> "no_score", score |-> 0, hire |-> hire, notes |-> weaknesses]
        ELSE IF score.raises # "none"
             THEN [kind |-> "unparseable", score |-> 0, hire |-> "absent", notes |-> <<>>]
        ELSE [kind |-> "fields", score |-> score.value, hire |-> hire,
              notes |-> weaknesses]

WinProbabilityUncapped(score) == score

\* min(score * 10, 90), a percentage (score is kept times ten)
WinProbability(score) == IF score < 90 THEN score ELSE 90

HireDecides(score, would_hire) == ~would_hire

\* requires_revision = score < 7.0 or not would_hire
ReviewRequiresRevision(score, would_hire) == score < 70 \/ ~would_hire

\* simple ReviewerAgent._parse_review_response on the fields read from the reply
SimpleReview(text, reply) ==
    LET parsed == reply.kind # "unparseable"
        score == IF reply.kind = "fields" THEN reply.score ELSE DefaultScore
        would_hire == IF reply.hire # "absent" THEN reply.hire = "yes" ELSE score >= 70
    IN  IF parsed
        THEN [raises |-> "none",
              success |-> score >= 70,
              requires_revision |-> ReviewRequiresRevision(score, would_hire),
              feedback |-> IF reply.kind = "fields"
                           THEN [kind |-> "model", about |-> text.id] ELSE NoFeedback,
              overall_score |-> score,
              win_probability |-> WinProbability(score),
              notes |-> reply.notes,
              llm_calls |-> 1]
        ELSE [raises |-> "none",
              success |-> TRUE,
              requires_revision |-> FALSE,
              feedback |-> [kind |-> "placeholder", about |-> text.id],
              overall_score |-> FallbackReviewScore,
              win_probability |-> FallbackWinProbability,
              notes |-> <<ParsingFailed>>,
              llm_calls |-> 1]

\* simple ReviewerAgent._parse_review_response on the text of the reply
ParseReviewResponse(text, lines) == SimpleReview(text, ReviewFields(lines))

\* full ReviewerAgent.review_proposal
FullReview(text, reply) ==
    [raises |-> CASE reply.kind = "bad_keys" -> "KeyError"
                   [] reply.kind = "call_fails" -> "LLMError"
                   [] OTHER -> "none",
     success |-> reply.kind = "json" /\ reply.score >= 70,
     requires_revision |-> reply.kind = "json" /\ reply.requires_revision,
     feedback |-> IF reply.kind = "call_fails" THEN NoFeedback
                  ELSE IF reply.kind = "json" THEN [kind |-> "model", about |-> text.id]
                  ELSE [kind |-> "placeholder", about |-> text.id],
     overall_score |-> IF reply.kind = "json" THEN reply.score ELSE None,
     win_probability |-> IF reply.kind = "json" THEN reply.win ELSE None,
     notes |-> IF reply.kind = "json" THEN reply.notes ELSE <<>>,
     llm_calls |-> 1]

-----------------------------------------------------------------------------
(* The orchestrators *)

\* a request whose budget of 4000 the plan of ScenarioTasks stays well below
ScenarioBudget == 4000

ScenarioRequest ==
    [max_budget |-> ScenarioBudget, error_margin |-> DefaultErrorMargin,
     express_mode |-> FALSE]

Requests ==
    [max_budget : {None, 0, Budget}, error_margin : {DefaultErrorMargin},
     express_mode : BOOLEAN] \cup {ScenarioRequest}

RevisionGrantedAtCap(requires_revision) ==
    requires_revision /\ revision_count <= max_revisions

\* the revision guard shared by the three loops
RevisionGranted(requires_revision) ==
    requires_revision /\ revision_count < max_revisions

RevisionNotCounted == revision_count

\* self.revision_count += 1
NextRevisionCount == revision_count + 1

\* the plan the next cost validation works on after a cost revision: the simple
\* orchestrator recurses on revised_plan, the full one recurses on the context,
\* whose current_plan it has not replaced
PlanAfterCostRevision(revised_plan) ==
    IF variant = "simple" THEN revised_plan ELSE current_plan

\* the template handed to the writer in a review revision: the simple
\* orchestrator passes request.template_name, the full one context.template
RevisionTemplate ==
    IF variant = "simple" THEN "name" ELSE "object"

AfterCostsIgnoresExpressMode ==
    IF cost_caller = "flow" /\ variant = "full"
    THEN [state |-> VALIDATING_TECHNICAL, pc |-> "technical"]
    ELSE [state |-> WRITING_PROPOSAL, pc |-> "write"]

\* where the run goes when cost validation returns
AfterCosts ==
    IF cost_caller = "flow" /\ variant = "full" /\ ~request.express_mode
    THEN [state |-> VALIDATING_TECHNICAL, pc |-> "technical"]
    ELSE [state |-> WRITING_PROPOSAL, pc |-> "write"]

QualityScoreNotScaled(overall_score) == overall_score * 10

\* overall_score / 10, as a percentage (overall_score is kept times ten)
QualityScore(overall_score) == (overall_score * 100) \div (10 * 10)

\* estimated_win_probability / 100, as a percentage
EstimatedWinProbability(win_probability) == (win_probability * 100) \div 100

\* The two quotients above are whole percentages.  The definitions below keep
\* the floats of the simple reviewer and of _create_final_output themselves, as
\* multiples of 1 / FloatUnit; every float of a score between 0.1 and 12 and of
\* its hundredth is such a multiple.
FloatUnit == 2^20

\* x / d for a float x and a whole d: the float nearest the quotient.  The
\* quotient is taken to a quarter of the unit, with the last bit set when
\* something is left over, so that Float rounds it as it rounds the exact value.
FloatDiv(x, d) ==
    LET quarters == (4 * x) \div d
        inexact == (4 * x) % d # 0
    IN  Float(IF inexact /\ quarters % 2 = 0 THEN quarters + 1 ELSE quarters) \div 4

\* float(score_text) for a score written with one decimal, given in tenths
ScoreFloat(tenths) == FloatDiv(tenths * FloatUnit, 10)

WinPercentageUncapped(score) == Float(score * 10)

\* min(score * 10, 90) on the float score
WinPercentage(score) ==
    IF Float(score * 10) < 90 * FloatUnit THEN Float(score * 10) ELSE 90 * FloatUnit

\* the review data of the simple reviewer that the output's two metrics are
\* taken from: parsed from a score, or the defaults of the except branch
ReviewMetrics(parsed, tenths) ==
    IF parsed
    THEN [overall_score |-> ScoreFloat(tenths),
          estimated_win_probability |-> WinPercentage(ScoreFloat(tenths))]
    ELSE [overall_score |-> ScoreFloat(FallbackReviewScore),
          estimated_win_probability |-> FallbackWinProbability * FloatUnit]

\* quality_score and estimated_win_probability of the simple _create_final_output
OutputMetrics(review_data) ==
    [quality_score |-> FloatDiv(review_data.overall_score, 10),
     estimated_win_probability |-> FloatDiv(review_data.estimated_win_probability, 100)]

\* The entries of a recommendations list, by what they advise
AddScope == "add_scope"
Contingency == "contingency"
ExcessRevisions == "excess_revisions"
Regroup == "regroup"
Suggestion == "suggestion"
Improve == "improve"
ValueProposition == "value_proposition"
SignificantImprovement == "significant_improvement"
ReadyForSubmission == "ready_for_submission"
FullValidation == "full_validation"
ManualReview == "manual_review"

AddScopePct == 70
ContingencyPct == 95
ExcessRevisionCount == 1
RegroupTaskCount == 10
GoodScore == 80
AcceptableScore == 70

AddsScopeAtBoundary(total_cost, max_budget) ==
    total_cost * 100 <= AddScopePct * max_budget

\* utilization < 0.7, with utilization = total_cost / max_budget
AddsScope(total_cost, max_budget) ==
    total_cost * 100 < AddScopePct * max_budget

\* utilization > 0.95
AddsContingency(total_cost, max_budget) ==
    total_cost * 100 > ContingencyPct * max_budget

\* a list of `n` entries `entry`
Repeat(entry, n) == [i \in 1 .. n |-> entry]

\* full ProposalOrchestrator._generate_recommendations; `suggestions` is the
\* review's improvement_suggestions (none when the key is absent)
FullRecommendations(suggestions, plan, max_budget, revisions) ==
    Repeat(Suggestion, Len(suggestions))
        \o (IF ~IsSet(max_budget) THEN <<>>
            ELSE IF AddsScope(plan.total_cost, max_budget) THEN <<AddScope>>
            ELSE IF AddsContingency(plan.total_cost, max_budget) THEN <<Contingency>>
            ELSE <<>>)
        \o (IF revisions > ExcessRevisionCount THEN <<ExcessRevisions>> ELSE <<>>)
        \o (IF Len(plan.tasks) > RegroupTaskCount THEN <<Regroup>> ELSE <<>>)

ValuePropositionAtBoundary(score) == score <= GoodScore

\* score < 8.0
NeedsValueProposition(score) == score < GoodScore

\* simple SimpleProposalOrchestrator._generate_recommendations; the weaknesses
\* that are blank give no entry
SimpleRecommendations(weaknesses, score, revisions) ==
    LET nonblank == SelectSeq(weaknesses, LAMBDA weakness : strip(weakness) # <<>>)
        entries ==
            Repeat(Improve, Len(nonblank))
                \o (IF NeedsValueProposition(score) THEN <<ValueProposition>> ELSE <<>>)
                \o (IF score < AcceptableScore THEN <<SignificantImprovement>> ELSE <<>>)
                \o (IF revisions > ExcessRevisionCount THEN <<ExcessRevisions>> ELSE <<>>)
    IN  IF entries = <<>> THEN <<ReadyForSubmission>> ELSE entries

\* _generate_recommendations of the orchestrator at hand, on the review data of
\* review_response; the full reviewer's answer has no data when it was not JSON
GenerateRecommendations(review_response) ==
    IF variant = "simple"
    THEN SimpleRecommendations(review_response.notes, review_response.overall_score,
                               revision_count)
    ELSE FullRecommendations(review_response.notes, current_plan, request.max_budget,
                             revision_count)

OutputWithoutReview(review_response) ==
    [proposal_text |-> current_proposal,
     execution_plan |-> current_plan,
     quality_score |-> QualityScore(NoReviewDataScore),
     estimated_win_probability |-> EstimatedWinProbability(NoReviewDataWinProbability),
     recommendations |-> GenerateRecommendations(review_response),
     reviewed |-> 0]

\* _create_final_output
CreateFinalOutput(review_response) ==
    [proposal_text |-> current_proposal,
     execution_plan |-> current_plan,
     quality_score |-> QualityScore(IF review_response.overall_score = None
                                    THEN NoReviewDataScore
                                    ELSE review_response.overall_score),
     estimated_win_probability |->
         EstimatedWinProbability(IF review_response.win_probability = None
                                 THEN NoReviewDataWinProbability
                                 ELSE review_response.win_probability),
     recommendations |-> GenerateRecommendations(review_response),
     reviewed |-> review_response.reviewed]

CalledTwice(agent) == [calls EXCEPT ![agent] = @ + 2]

\* one more call of `agent` has been made and has returned or raised
Called(agent) == [calls EXCEPT ![agent] = @ + 1]

Init ==
    /\ variant \in {"full", "simple"}
    /\ max_revisions \in 0 .. MaxRevisionCycles
    /\ state = INITIALIZING
    /\ revision_count = 0
    /\ request = [max_budget |-> None, error_margin |-> DefaultErrorMargin,
                  express_mode |-> FALSE]
    /\ pc = "idle"
    /\ cost_caller = "flow"
    /\ current_plan = NoPlan
    /\ current_proposal = NoText
    /\ response = NoResponse
    /\ output = NoOutput
    /\ thrown = "none"
    /\ raised = "none"
    /\ runs = 0
    /\ calls = NoCalls
    /\ reinvoked = NoReinvocations
    /\ all_revise = TRUE
    /\ last_translated = 0
    /\ last_written = 0
    /\ validated = 0
    /\ translator_feedback = NoFeedback
    /\ writer_feedback = NoFeedback
    /\ applied = NotApplied

FailSwallowed(agent, exception) ==
    /\ state' = FAILED
    /\ thrown' = exception
    /\ raised' = "none"
    /\ pc' = "idle"
    /\ calls' = Called(agent)
    /\ UNCHANGED <<variant, max_revisions, revision_count, request, cost_caller,
                   current_plan, current_proposal, response, output, runs,
                   all_revise, last_translated, last_written>>

\* an exception escapes the phase in which `agent` was called; the except clause
\* of generate_proposal records FAILED and re-raises it
Fail(agent, exception) ==
    /\ state' = FAILED
    /\ thrown' = exception
    /\ raised' = exception
    /\ pc' = "idle"
    /\ calls' = Called(agent)
    /\ UNCHANGED <<variant, max_revisions, revision_count, request, cost_caller,
                   current_plan, current_proposal, response, output, runs,
                   all_revise, last_translated, last_written>>

\* a caller starts generate_proposal; the first statement enters phase 1.
\* Nothing of the instance is reset: revision_count keeps its value.
Start(req) ==
    /\ pc = "idle"
    /\ UNCHANGED applied
    /\ runs < MaxRuns
    /\ runs' = runs + 1
    /\ request' = req
    /\ state' = TRANSLATING_REQUIREMENTS
    /\ pc' = "translate"
    /\ cost_caller' = "flow"
    /\ current_plan' = NoPlan
    /\ current_proposal' = NoText
    /\ response' = NoResponse
    /\ output' = NoOutput
    /\ thrown' = "none"
    /\ raised' = "none"
    /\ calls' = NoCalls
    /\ all_revise' = TRUE
    /\ last_translated' = 0
    /\ last_written' = 0
    /\ validated' = 0
    /\ translator_feedback' = NoFeedback
    /\ writer_feedback' = NoFeedback
    /\ UNCHANGED <<variant, max_revisions, revision_count, reinvoked>>

\* phase 1: _translate_requirements, then the state moves to VALIDATING_COSTS
Translate(reply) ==
    /\ pc = "translate"
    /\ UNCHANGED applied
    /\ LET r == create_execution_plan(calls.translate + 1, HourlyRate, reply)
       IN  /\ translator_feedback' = NoFeedback
           /\ UNCHANGED <<writer_feedback, validated, reinvoked>>
           /\ IF r.raises # "none" THEN Fail("translate", r.raises)
              ELSE /\ current_plan' = r.plan
                   /\ last_translated' = r.plan.id
                   /\ calls' = Called("translate")
                   /\ state' = VALIDATING_COSTS
                   /\ pc' = "cost"
                   /\ UNCHANGED <<variant, max_revisions, revision_count, request,
                                  cost_caller, current_proposal, response, output,
                                  thrown, raised, runs, all_revise, last_written>>

\* the costing agent's answer for the current plan
CostResponse(reply) ==
    IF variant = "simple"
    THEN SimpleValidateCosts(current_plan, request.max_budget, request.error_margin,
                             reply)
    ELSE FullDecision(current_plan.id, reply)

CostReplies == IF variant = "simple" THEN AdvisoryReplies ELSE DecisionReplies

\* phase 2: one pass of _validate_costs / _validate_and_optimize_costs up to the
\* decision on the agent's answer.  The full orchestrator also computes a budget
\* reduction recommended_cuts / total_cost from the answer, which it only logs;
\* every plan cost of PlanCosts is positive, so the division is defined.
ValidateCosts(reply) ==
    /\ pc = "cost"
    /\ UNCHANGED applied
    /\ LET r == CostResponse(reply)
       IN  /\ validated' = current_plan.id
           /\ UNCHANGED <<translator_feedback, writer_feedback, reinvoked>>
           /\ IF r.raises # "none" THEN Fail("cost", r.raises)
              ELSE /\ calls' = Called("cost")
                   /\ response' = [requires_revision |-> r.requires_revision,
                                   feedback |-> r.feedback,
                                   overall_score |-> None, win_probability |-> None,
                                   notes |-> <<>>, reviewed |-> 0]
                   /\ all_revise' = (all_revise /\ r.requires_revision)
                   /\ IF RevisionGranted(r.requires_revision)
                      THEN /\ revision_count' = NextRevisionCount
                           /\ pc' = "cost_revise"
                           /\ UNCHANGED state
                      ELSE /\ state' = AfterCosts.state
                           /\ pc' = AfterCosts.pc
                           /\ UNCHANGED revision_count
                   /\ UNCHANGED <<variant, max_revisions, request, cost_caller,
                                  current_plan, current_proposal, output, thrown,
                                  raised, runs, last_translated, last_written>>

\* the translator is re-invoked with the costing feedback
ReviseCosts(reply) ==
    /\ pc = "cost_revise"
    /\ UNCHANGED applied
    /\ LET r == create_execution_plan(calls.translate + 1, HourlyRate, reply)
       IN  /\ translator_feedback' = response.feedback
           /\ reinvoked' = [reinvoked EXCEPT !.cost = @ + 1]
           /\ UNCHANGED <<writer_feedback, validated>>
           /\ IF r.raises # "none" THEN Fail("translate", r.raises)
              ELSE /\ current_plan' = PlanAfterCostRevision(r.plan)
                   /\ last_translated' = r.plan.id
                   /\ calls' = Called("translate")
                   /\ pc' = "cost"
                   /\ UNCHANGED <<variant, max_revisions, state, revision_count,
                                  request, cost_caller, current_proposal, response,
                                  output, thrown, raised, runs, all_revise,
                                  last_written>>

\* phase 3 (full orchestrator, not in express mode): _validate_technical_feasibility
\* up to the decision on the validator's answer
ValidateTechnical(reply) ==
    /\ pc = "technical"
    /\ UNCHANGED applied
    /\ LET r == FullDecision(current_plan.id, reply)
       IN  /\ UNCHANGED <<translator_feedback, writer_feedback, validated, reinvoked>>
           /\ IF r.raises # "none" THEN Fail("technical", r.raises)
              ELSE /\ calls' = Called("technical")
                   /\ response' = [requires_revision |-> r.requires_revision,
                                   feedback |-> r.feedback,
                                   overall_score |-> None, win_probability |-> None,
                                   notes |-> <<>>, reviewed |-> 0]
                   /\ all_revise' = (all_revise /\ r.requires_revision)
                   /\ IF RevisionGranted(r.requires_revision)
                      THEN /\ revision_count' = NextRevisionCount
                           /\ pc' = "technical_revise"
                           /\ UNCHANGED state
                      ELSE /\ state' = WRITING_PROPOSAL
                           /\ pc' = "write"
                           /\ UNCHANGED revision_count
                   /\ UNCHANGED <<variant, max_revisions, request, cost_caller,
                                  current_plan, current_proposal, output, thrown,
                                  raised, runs, last_translated, last_written>>

StateResetToCosts == VALIDATING_COSTS

\* the state the orchestrator is in while cost validation runs again from the
\* technical phase: the code does not assign self.state there
StateForCostRevalidation == state

CostRevalidationSkipped == "write"

\* where the run goes once the technically revised plan is stored: on to
\* "Re-validate costs for the revised plan"
AfterTechnicalRevision == "cost"

\* the translator is re-invoked with the technical feedback, the revised plan is
\* stored in the context and cost validation runs again from inside phase 3
ReviseTechnical(reply) ==
    /\ pc = "technical_revise"
    /\ UNCHANGED applied
    /\ LET r == create_execution_plan(calls.translate + 1, HourlyRate, reply)
       IN  /\ translator_feedback' = response.feedback
           /\ reinvoked' = [reinvoked EXCEPT !.technical = @ + 1]
           /\ UNCHANGED <<writer_feedback, validated>>
           /\ IF r.raises # "none" THEN Fail("translate", r.raises)
              ELSE /\ current_plan' = r.plan
                   /\ last_translated' = r.plan.id
                   /\ calls' = Called("translate")
                   /\ cost_caller' = "technical"
                   /\ state' = StateForCostRevalidation
                   /\ pc' = AfterTechnicalRevision
                   /\ UNCHANGED <<variant, max_revisions, revision_count, request,
                                  current_proposal, response, output, thrown, raised,
                                  runs, all_revise, last_written>>

\* phase 4: _write_proposal with the template object, then the state moves to
\* REVIEWING_PROPOSAL
WriteProposal(reply) ==
    /\ pc = "write"
    /\ UNCHANGED applied
    /\ LET r == write_proposal(calls.write + 1, "object", reply)
       IN  /\ writer_feedback' = NoFeedback
           /\ UNCHANGED <<translator_feedback, validated, reinvoked>>
           /\ IF r.raises # "none" THEN Fail("write", r.raises)
              ELSE /\ current_proposal' = r.text
                   /\ last_written' = r.text.id
                   /\ calls' = Called("write")
                   /\ state' = REVIEWING_PROPOSAL
                   /\ pc' = "review"
                   /\ UNCHANGED <<variant, max_revisions, revision_count, request,
                                  cost_caller, current_plan, response, output, thrown,
                                  raised, runs, all_revise, last_translated>>

ReviewResponse(reply) ==
    IF variant = "simple" THEN SimpleReview(current_proposal, reply)
    ELSE FullReview(current_proposal, reply)

ReviewReplies == IF variant = "simple" THEN SimpleReviewReplies ELSE FullReviewReplies

\* phase 5: one pass of _review_proposal / _review_and_refine_proposal up to the
\* decision on the review; without a granted revision the output is assembled,
\* the state becomes COMPLETED and the output is returned
ReviewProposal(reply) ==
    /\ pc = "review"
    /\ UNCHANGED applied
    /\ LET r == ReviewResponse(reply)
           review_response == [requires_revision |-> r.requires_revision,
                               feedback |-> r.feedback,
                               overall_score |-> r.overall_score,
                               win_probability |-> r.win_probability,
                               notes |-> r.notes,
                               reviewed |-> current_proposal.id]
       IN  /\ UNCHANGED <<translator_feedback, writer_feedback, validated, reinvoked>>
           /\ IF r.raises # "none" THEN Fail("review", r.raises)
              ELSE /\ calls' = Called("review")
                   /\ response' = review_response
                   /\ all_revise' = (all_revise /\ r.requires_revision)
                   /\ IF RevisionGranted(r.requires_revision)
                      THEN /\ revision_count' = NextRevisionCount
                           /\ pc' = "review_revise"
                           /\ UNCHANGED <<state, output>>
                      ELSE /\ output' = CreateFinalOutput(review_response)
                           /\ state' = COMPLETED
                           /\ pc' = "idle"
                           /\ UNCHANGED revision_count
                   /\ UNCHANGED <<variant, max_revisions, request, cost_caller,
                                  current_plan, current_proposal, thrown, raised, runs,
                                  last_translated, last_written>>

PlanDroppedForReReview(plan) == NoPlan

\* the plan the next review pass and the output get: the one the writer was given
PlanForReReview(plan) == plan

\* the writer is re-invoked with the reviewer's feedback
ReviseProposal(reply) ==
    /\ pc = "review_revise"
    /\ UNCHANGED applied
    /\ LET r == write_proposal(calls.write + 1, RevisionTemplate, reply)
       IN  /\ writer_feedback' = response.feedback
           /\ reinvoked' = [reinvoked EXCEPT !.review = @ + 1]
           /\ UNCHANGED <<translator_feedback, validated>>
           /\ IF r.raises # "none" THEN Fail("write", r.raises)
              ELSE /\ current_proposal' = r.text
                   /\ last_written' = r.text.id
                   /\ calls' = Called("write")
                   /\ current_plan' = PlanForReReview(current_plan)
                   /\ pc' = "review"
                   /\ UNCHANGED <<variant, max_revisions, state, revision_count,
                                  request, cost_caller, response, output, thrown,
                                  raised, runs, all_revise, last_translated>>

\* the steps of a run in flight
RunStep ==
    \/ \E reply \in TranslatorReplies : Translate(reply)
    \/ \E reply \in CostReplies : ValidateCosts(reply)
    \/ \E reply \in TranslatorReplies : ReviseCosts(reply)
    \/ \E reply \in DecisionReplies : ValidateTechnical(reply)
    \/ \E reply \in TranslatorReplies : ReviseTechnical(reply)
    \/ \E reply \in WriterReplies : WriteProposal(reply)
    \/ \E reply \in ReviewReplies : ReviewProposal(reply)
    \/ \E reply \in WriterReplies : ReviseProposal(reply)

Next ==
    \/ \E req \in Requests : Start(req)
    \/ RunStep

Spec == Init /\ [][Next]_vars

\* a run that has started keeps running: every agent call returns or raises
FairSpec == Spec /\ WF_vars(RunStep)

-----------------------------------------------------------------------------
(* The express orchestrators: SimpleExpressOrchestrator and ExpressOrchestrator. *)
(* An instance keeps no state and no revision counter; `variant` names the     *)
(* module it comes from, and `state` and `revision_count` are not touched.     *)

ExpressQualityScore == 75

\* estimated_win_probability of an express output, as a percentage
ExpressWinProbability == IF variant = "simple" THEN 65 ELSE 60

\* "Express mode - limited review performed" (simple) and
\* "Express mode - no detailed review performed" (full)
NoDetailedReview == "Express mode - no detailed review performed"

\* the reviewer_feedback argument of the output of generate_express_proposal:
\* the simple class passes a list with one string, the full class a bare string
ExpressReviewerFeedback ==
    IF variant = "simple" THEN [type |-> "list", items |-> <<NoDetailedReview>>]
    ELSE [type |-> "str", items |-> NoDetailedReview]

\* ProposalOutput.reviewer_feedback: List[str]; pydantic rejects any other value
ProposalOutputRaises(reviewer_feedback) ==
    IF reviewer_feedback.type = "list" THEN "none" ELSE "ValidationError"

\* ProposalOutput(...) at the end of generate_express_proposal
ExpressOutputRaises == ProposalOutputRaises(ExpressReviewerFeedback)

\* the except clause of generate_express_proposal logs and re-raises
ExpressRaise(agent, exception) ==
    /\ thrown' = exception
    /\ raised' = exception
    /\ pc' = "idle"
    /\ calls' = Called(agent)
    /\ UNCHANGED <<variant, max_revisions, state, revision_count, request, cost_caller,
                   current_plan, current_proposal, response, output, runs,
                   all_revise, last_translated, last_written>>

\* a caller starts generate_express_proposal
ExpressStart(req) ==
    /\ pc = "idle"
    /\ UNCHANGED applied
    /\ runs < MaxRuns
    /\ runs' = runs + 1
    /\ request' = req
    /\ pc' = "express_translate"
    /\ current_plan' = NoPlan
    /\ current_proposal' = NoText
    /\ output' = NoOutput
    /\ thrown' = "none"
    /\ raised' = "none"
    /\ calls' = NoCalls
    /\ last_translated' = 0
    /\ last_written' = 0
    /\ UNCHANGED <<variant, max_revisions, state, revision_count, cost_caller, response,
                   all_revise, validated, translator_feedback, writer_feedback,
                   reinvoked>>

\* step 1: the translator creates the plan
ExpressTranslate(reply) ==
    /\ pc = "express_translate"
    /\ UNCHANGED applied
    /\ LET r == create_execution_plan(calls.translate + 1, HourlyRate, reply)
       IN  /\ UNCHANGED <<translator_feedback, writer_feedback, validated, reinvoked>>
           /\ IF r.raises # "none" THEN ExpressRaise("translate", r.raises)
              ELSE /\ current_plan' = r.plan
                   /\ last_translated' = r.plan.id
                   /\ calls' = Called("translate")
                   /\ pc' = "express_write"
                   /\ UNCHANGED <<variant, max_revisions, state, revision_count, request,
                                  cost_caller, current_proposal, response, output,
                                  thrown, raised, runs, all_revise, last_written>>

\* steps 2 and 3: the writer writes the proposal and the output is constructed
\* and returned
ExpressWrite(reply) ==
    /\ pc = "express_write"
    /\ UNCHANGED applied
    /\ LET r == write_proposal(calls.write + 1, "object", reply)
       IN  /\ UNCHANGED <<translator_feedback, writer_feedback, validated, reinvoked>>
           /\ IF r.raises # "none" THEN ExpressRaise("write", r.raises)
              ELSE IF ExpressOutputRaises # "none"
                   THEN ExpressRaise("write", ExpressOutputRaises)
              ELSE /\ current_proposal' = r.text
                   /\ last_written' = r.text.id
                   /\ calls' = Called("write")
                   /\ output' = [proposal_text |-> r.text,
                                 execution_plan |-> current_plan,
                                 reviewer_feedback |-> ExpressReviewerFeedback,
                                 quality_score |-> ExpressQualityScore,
                                 estimated_win_probability |-> ExpressWinProbability,
                                 recommendations |-> <<FullValidation, ManualReview>>,
                                 reviewed |-> 0]
                   /\ pc' = "idle"
                   /\ UNCHANGED <<variant, max_revisions, state, revision_count, request,
                                  cost_caller, current_plan, response, thrown, raised,
                                  runs, all_revise, last_translated>>

\* an instance of either express class, on which nothing has run
ExpressInit == Init /\ max_revisions = 0

ExpressNext ==
    \/ \E req \in Requests : ExpressStart(req)
    \/ \E reply \in TranslatorReplies : ExpressTranslate(reply)
    \/ \E reply \in WriterReplies : ExpressWrite(reply)

ExpressSpec == ExpressInit /\ [][ExpressNext]_vars

-----------------------------------------------------------------------------

(* The functions of the agents and of the data model, called on their own.    *)
(* Each action calls one function on arguments drawn from the sets below and  *)
(* records the call in `applied`; no run is in flight.                        *)

MaxTasks == 3

TaskHours == {-2, 3, 45}
TaskRates == {-1, 47}
Priorities == {"mandatory", "optional", "nice_to_have"}

TaskLists ==
    UNION {[1 .. n -> [hours : TaskHours, rate : TaskRates, priority : Priorities]] :
             n \in 0 .. MaxTasks}

Budgets == {None, 0, 100, Budget}
ErrorMargins == {0, DefaultErrorMargin, 30, 50}
TotalCosts ==
    {0, 79, 80, 81, 100, 110, 111, 130, 131, 150, 151,
     790, 800, 801, 1000, 1099, 1100, 1101, 1300, 1301, 1310, 1500, 1501}

ProfileRates == {HourlyRate, 50}

\* priorities as a model may spell them
RawPriorities ==
    {<<"m", "a", "n", "d", "a", "t", "o", "r", "y">>,
     <<"o", "p", "t", "i", "o", "n", "a", "l">>,
     <<"n", "i", "c", "e", "_", "t", "o", "_", "h", "a", "v", "e">>,
     <<"M", "A", "N", "D", "A", "T", "O", "R", "Y">>,
     <<"O", "p", "t", "i", "o", "n", "a", "l">>,
     <<"N", "I", "C", "E", "_", "T", "O", "_", "H", "A", "V", "E">>,
     <<"n", "i", "c", "e", "-", "t", "o", "-", "h", "a", "v", "e">>,
     <<"N", "i", "c", "e", "-", "T", "o", "-", "H", "a", "v", "e">>,
     <<"n", "i", "c", "e", " ", "t", "o", " ", "h", "a", "v", "e">>,
     <<"h", "i", "g", "h">>,
     <<"m", "u", "s", "t", "-", "h", "a", "v", "e">>,
     <<>>}

\* decoded plans of one or two tasks with their priorities spelled in any way
RawTranslatorReplies ==
    [kind : {"json"},
     tasks : UNION {[1 .. n -> [hours : {3}, rate : {10}, priority : RawPriorities]] :
                      n \in 1 .. 2}]
        \cup [kind : FailureKinds, tasks : {<<>>}]

\* one call per behaviour: the function named op is called on arg and returns res
Apply(op, arg, res) ==
    /\ applied' = [op |-> op, arg |-> arg, res |-> res]
    /\ UNCHANGED run_vars

ApplyCalculateTotals ==
    /\ applied = NotApplied
    /\ \E tasks \in TaskLists :
          Apply("calculate_totals", tasks, calculate_totals(tasks))

ApplyNormalizePriority ==
    /\ applied = NotApplied
    /\ \E raw \in RawPriorities :
          Apply("normalize_priority", raw, NormalizePriority(raw))

ApplyCreateExecutionPlan ==
    /\ applied = NotApplied
    /\ \E rate \in ProfileRates, reply \in RawTranslatorReplies :
          Apply("create_execution_plan", [rate |-> rate, reply |-> reply],
                create_execution_plan(1, rate, reply))

ApplyValidateCosts ==
    /\ applied = NotApplied
    /\ \E total_cost \in TotalCosts, max_budget \in Budgets,
          error_margin \in ErrorMargins, advisory \in AdvisoryReplies :
          Apply("validate_costs",
                [total_cost |-> total_cost, max_budget |-> max_budget,
                 error_margin |-> error_margin, advisory |-> advisory],
                SimpleValidateCosts([NoPlan EXCEPT !.id = 1, !.total_cost = total_cost],
                                    max_budget, error_margin, advisory))

ApplyFullDecision ==
    /\ applied = NotApplied
    /\ \E reply \in DecisionReplies : Apply("decision", reply, FullDecision(1, reply))

\* a score in tenths as a model writes it: "8", "6.9", "-1"
Decimal(tenths) ==
    LET magnitude == Abs(tenths)
        whole == magnitude \div 10
        digits == IF whole >= 10
                  THEN <<DecimalDigits[(whole \div 10) + 1], DecimalDigits[(whole % 10) + 1]>>
                  ELSE <<DecimalDigits[whole + 1]>>
        fraction == IF magnitude % 10 = 0 THEN <<>>
                    ELSE <<".", DecimalDigits[(magnitude % 10) + 1]>>
    IN  (IF tenths < 0 THEN <<"-">> ELSE <<>>) \o digits \o fraction

\* the line "SCORE: X/10" the reviewer's prompt asks for
ScoreLine(tenths) == <<"S", "C", "O", "R", "E", ":", " ">> \o Decimal(tenths) \o <<"/", "1", "0">>

\* the line "WOULD_HIRE: Yes/No" the reviewer's prompt asks for
WouldHireLine(would_hire) ==
    <<"W", "O", "U", "L", "D", "_", "H", "I", "R", "E", ":", " ">>
        \o (IF would_hire THEN <<"Y", "e", "s">> ELSE <<"N", "o">>)

RawScores == {-10, 50, 69, 70, 80, 85, 120}

\* SCORE lines a model may write instead
LowerCaseScoreLine == <<"S", "c", "o", "r", "e", ":", " ", "5", "/", "1", "0">>
BoldScoreLine ==
    <<"*", "*", "S", "C", "O", "R", "E", ":", "*", "*", " ", "8", "/", "1", "0">>
BareScoreLine == <<"S", "C", "O", "R", "E", ":", " ", "8">>
NoNumberScoreLine == <<"S", "C", "O", "R", "E", ":", " ", "N", "/", "A">>

OtherScoreLines ==
    {LowerCaseScoreLine, BoldScoreLine, BareScoreLine, NoNumberScoreLine}

\* what _call_llm returns for the reviewer when the call fails
ReviewerErrorMarker ==
    <<"E", "r", "r", "o", "r", ":", " ", "U", "n", "a", "b", "l", "e", " ", "t", "o", " ",
      "g", "e", "n", "e", "r", "a", "t", "e", " ", "r", "e", "s", "p", "o", "n", "s", "e",
      " ", "f", "o", "r", " ", "C", "l", "i", "e", "n", "t", " ", "P", "e", "r", "s", "p",
      "e", "c", "t", "i", "v", "e", " ", "R", "e", "v", "i", "e", "w", "e", "r">>

\* replies of the reviewer's model as lines of text: a SCORE line or none, then
\* a WOULD_HIRE line or none; or the error marker
\* the line "WEAKNESSES: ..." the reviewer's prompt asks for
WeaknessesLine(weakness) ==
    <<"W", "E", "A", "K", "N", "E", "S", "S", "E", "S", ":", " ">> \o weakness

\* replies of the reviewer's model as lines of text: a SCORE line or none, a
\* WEAKNESSES line (with or without a weakness) or none, then a WOULD_HIRE line
\* or none; or the error marker
RawReviews ==
    {score_lines \o weaknesses_lines \o hire_lines :
        score_lines \in {<<>>} \cup {<<ScoreLine(tenths)>> : tenths \in RawScores}
                           \cup {<<line>> : line \in OtherScoreLines},
        weaknesses_lines \in {<<>>, <<WeaknessesLine(<<>>)>>, <<WeaknessesLine(Vague)>>},
        hire_lines \in {<<>>} \cup {<<WouldHireLine(would_hire)>> : would_hire \in BOOLEAN}}
        \cup {<<ReviewerErrorMarker>>}

ApplyParseReviewResponse ==
    /\ applied = NotApplied
    /\ \E lines \in RawReviews :
          Apply("parse_review_response", lines, ParseReviewResponse(NoText, lines))

\* the inputs of _generate_recommendations: the review's weaknesses or
\* suggestions and its score, the plan's cost and number of tasks, the budget
\* and the revisions counted so far
NoteLists == {<<>>, << <<>> >>, << <<" ">> >>, <<Vague>>, << <<>>, Vague >>}
RecommendationScores == {50, 69, 70, 79, 80, 120}
RecommendationCosts == {0, 69, 70, 71, 95, 96, 700, 949, 950, 951}
TaskCounts == {3, 10, 11}

\* a plan of `count` tasks costing total_cost
PlanOf(count, total_cost) ==
    [NoPlan EXCEPT !.id = 1, !.total_cost = total_cost,
                   !.tasks = Repeat([hours |-> 1, rate |-> 1,
                                     priority |-> "mandatory"], count)]

ApplyGenerateRecommendations ==
    /\ applied = NotApplied
    /\ \E notes \in NoteLists, score \in RecommendationScores,
          total_cost \in RecommendationCosts, max_budget \in Budgets,
          revisions \in 0 .. MaxRevisionCycles, count \in TaskCounts :
          Apply("generate_recommendations",
                [notes |-> notes, score |-> score, total_cost |-> total_cost,
                 max_budget |-> max_budget, revisions |-> revisions, tasks |-> count],
                IF variant = "simple"
                THEN SimpleRecommendations(notes, score, revisions)
                ELSE FullRecommendations(notes, PlanOf(count, total_cost), max_budget,
                                         revisions))

\* the scores a review may carry, in tenths: 0.1 to 12.0
MetricScores == 1 .. 120

\* the metrics of the simple pipeline's output for a review with a score, or
\* for one that could not be parsed
ApplyOutputMetrics ==
    /\ applied = NotApplied
    /\ variant = "simple"
    /\ \E parsed \in BOOLEAN, tenths \in MetricScores :
          /\ parsed \/ tenths = FallbackReviewScore
          /\ Apply("output_metrics", [parsed |-> parsed, score |-> tenths],
                   OutputMetrics(ReviewMetrics(parsed, tenths)))

ApplyReview ==
    /\ applied = NotApplied
    /\ \E reply \in ReviewReplies : Apply("review", reply, ReviewResponse(reply))

\* an instance of either orchestrator class, on which nothing has run
FunctionInit == Init /\ max_revisions = 0

FunctionNext ==
    \/ ApplyCalculateTotals
    \/ ApplyNormalizePriority
    \/ ApplyCreateExecutionPlan
    \/ ApplyValidateCosts
    \/ ApplyFullDecision
    \/ ApplyReview
    \/ ApplyParseReviewResponse
    \/ ApplyGenerateRecommendations
    \/ ApplyOutputMetrics

FunctionSpec == FunctionInit /\ [][FunctionNext]_vars

TypeOK ==
    /\ state \in ProcessState
    /\ revision_count \in Nat
    /\ pc \in {"idle", "translate", "cost", "cost_revise", "technical",
               "technical_revise", "write", "review", "review_revise",
               "express_translate", "express_write"}

-----------------------------------------------------------------------------
(* Properties *)

RevisePcs == {"cost_revise", "technical_revise", "review_revise"}

\* C1: in every reachable state 0 <= revision_count <= max_revisions, and no step
\* decreases revision_count, whatever the agents answer.
C1_RevisionCountBounded ==
    /\ [](0 <= revision_count /\ revision_count <= max_revisions)
    /\ [][revision_count' >= revision_count]_vars

\* the cap was reached by granted revisions and a further request was turned down
C1_Witness ==
    /\ max_revisions = MaxRevisionCycles
    /\ revision_count = max_revisions
    /\ response.requires_revision
    /\ pc = "write"

\* C2: a run on a fresh orchestrator in which every decision asks for a revision
\* ends (under FairSpec every started run returns), and it ends in COMPLETED with
\* exactly max_revisions feedback-driven translator / writer calls and
\* revision_count = max_revisions.
C2_AlwaysReviseTerminates ==
    /\ [](pc # "idle" => <>(pc = "idle"))
    /\ []((runs = 1 /\ pc = "idle" /\ all_revise /\ thrown = "none")
            => /\ state = COMPLETED
               /\ revision_count = max_revisions
               /\ (calls.translate - 1) + (calls.write - 1) = max_revisions
               /\ reinvoked.cost + reinvoked.technical + reinvoked.review
                    = max_revisions)

\* a completed first run whose cost and review decisions all asked for revision
C2_Witness ==
    /\ runs = 1
    /\ pc = "idle"
    /\ state = COMPLETED
    /\ all_revise
    /\ max_revisions = MaxRevisionCycles
    /\ calls.cost > 1
    /\ calls.review = 1

\* the order of the phases
Rank(s) ==
    CASE s = INITIALIZING -> 0
      [] s = TRANSLATING_REQUIREMENTS -> 1
      [] s = VALIDATING_COSTS -> 2
      [] s = VALIDATING_TECHNICAL -> 3
      [] s = WRITING_PROPOSAL -> 4
      [] s = REVIEWING_PROPOSAL -> 5
      [] s = COMPLETED -> 6
      [] s = FAILED -> 7

\* s -> t follows the documented order: stay, go to the next phase (the technical
\* phase may be skipped), or fail from a phase
Forward(s, t) ==
    \/ t = s
    \/ t = FAILED /\ s \notin {COMPLETED, INITIALIZING}
    \/ Rank(t) = Rank(s) + 1 /\ t # FAILED
    \/ s = VALIDATING_COSTS /\ t = WRITING_PROPOSAL

\* C3: from the first assignment of a run on, every step of the run moves the
\* state forward along the documented order (or to FAILED); the first run starts
\* from INITIALIZING.
C3_StateMovesForward ==
    [][(pc # "idle" \/ runs = 0) => Forward(state, state')]_vars

\* cost validation is running again from inside the technical phase
C3_Witness ==
    /\ pc = "cost"
    /\ cost_caller = "technical"
    /\ state = VALIDATING_TECHNICAL
    /\ calls.cost >= 1

\* C4: when an exception escapes a phase, the state is FAILED, the same exception
\* is raised to the caller and the run returns no output; FAILED is entered in no
\* other way.
C4_FailureSemantics ==
    /\ (thrown # "none" => /\ state = FAILED
                           /\ raised = thrown
                           /\ output = NoOutput
                           /\ pc = "idle")
    /\ ((state = FAILED \/ raised # "none") => thrown # "none")

\* a review revision of the simple orchestrator has failed in the writer
C4_Witness ==
    /\ thrown = "AttributeError"
    /\ state = FAILED
    /\ calls.review >= 1

\* C5: no combination of model outputs, budget settings and review verdicts
\* takes a run to FAILED.
C5_NeverFailed == state # FAILED

\* C6: when a decision asks for a revision while revision_count = max_revisions,
\* that step re-invokes no agent, leaves revision_count, the plan and the text
\* unchanged and goes on to the next phase; in the review phase the run then is
\* COMPLETED with an output.
C6_CapReachedProceeds ==
    [][(/\ pc \in {"cost", "technical", "review"}
        /\ revision_count = max_revisions
        /\ thrown' = "none"
        /\ response'.requires_revision)
       => /\ revision_count' = revision_count
          /\ current_plan' = current_plan
          /\ current_proposal' = current_proposal
          /\ calls'.translate = calls.translate
          /\ calls'.write = calls.write
          /\ reinvoked' = reinvoked
          /\ state' # FAILED
          /\ pc' \notin RevisePcs
          /\ pc = "cost" => pc' \in {"technical", "write"}
          /\ pc = "technical" => pc' = "write"
          /\ pc = "review" => /\ pc' = "idle"
                              /\ state' = COMPLETED
                              /\ output'.proposal_text = current_proposal
                              /\ output'.execution_plan = current_plan]_vars

\* a review asked for a revision at the cap and the run completed
C6_Witness ==
    /\ state = COMPLETED
    /\ response.requires_revision
    /\ revision_count = max_revisions
    /\ max_revisions > 0
    /\ output.proposal_text = current_proposal

\* C7: revision_count is one counter for all phases: it equals the number of
\* feedback-driven translator and writer calls made so far for cost validation,
\* technical validation and review together (plus the one granted and about to
\* be made), so what one phase was granted is no longer available to another.
C7_SharedCounter ==
    /\ revision_count
         = reinvoked.cost + reinvoked.technical + reinvoked.review
           + (IF pc \in RevisePcs THEN 1 ELSE 0)
    /\ reinvoked.review <= max_revisions - reinvoked.cost - reinvoked.technical
    /\ reinvoked.cost <= max_revisions - reinvoked.technical - reinvoked.review

\* revisions were granted to cost validation and to review in the same run
C7_Witness ==
    /\ runs = 1
    /\ reinvoked.cost >= 1
    /\ reinvoked.review >= 1
    /\ state = COMPLETED

\* C8: after a granted cost revision the next cost validation is made on the
\* plan the translator just returned for the rejecting response's feedback, not
\* on the plan that was rejected.
C8_RevisedPlanValidated ==
    (pc = "cost" /\ calls.translate > 1)
        => /\ current_plan.id = last_translated
           /\ current_plan.id # validated
           /\ translator_feedback = response.feedback

\* C9: the plan handed to the writer and the reviewer, and the execution_plan of
\* the output, is the plan the translator produced last in the run.
C9_LastPlanReturned ==
    /\ pc \in {"write", "review", "review_revise"} => current_plan.id = last_translated
    /\ state = COMPLETED => output.execution_plan.id = last_translated

\* C10: a granted review revision re-invokes the writer with the reviewer's
\* feedback and, unless the model call itself fails, the new text replaces the
\* current one and is reviewed next; the output carries the text of the last
\* writer call and the metrics of the review of that text.
C10_RevisedTextReviewed ==
    /\ [][(pc = "review_revise" /\ thrown' # "LLMError")
          => /\ pc' = "review"
             /\ writer_feedback' = response.feedback
             /\ current_proposal'.id = last_written'
             /\ current_proposal'.id # response.reviewed]_vars
    /\ [](state = COMPLETED => /\ output.proposal_text.id = last_written
                               /\ output.reviewed = last_written)

\* C11: for a set max_budget the simple costing agent reports within_budget (and
\* success) exactly when total_cost <= max_budget * (1 + error_margin); with
\* max_budget 1000 and error_margin 0.1 a plan costing 1099 is within budget and
\* one costing 1101 is not.
C11_WithinBudgetRule ==
    (applied.op = "validate_costs" /\ IsSet(applied.arg.max_budget))
        => /\ applied.res.raises = "none"
           /\ applied.res.success
                <=> 100 * (applied.arg.total_cost - applied.arg.max_budget)
                      <= applied.arg.error_margin * applied.arg.max_budget
           /\ (/\ applied.arg.max_budget = 1000
               /\ applied.arg.error_margin = 10
               /\ applied.arg.total_cost = 1099) => applied.res.success
           /\ (/\ applied.arg.max_budget = 1000
               /\ applied.arg.error_margin = 10
               /\ applied.arg.total_cost = 1101) => ~applied.res.success

\* a plan of 1099 was validated against a budget of 1000 with a margin of 10%
C11_Witness ==
    /\ applied.op = "validate_costs"
    /\ applied.arg.max_budget = Budget
    /\ applied.arg.error_margin = DefaultErrorMargin
    /\ applied.arg.total_cost = 1099
    /\ applied.res.success

\* C12: when max_budget is unset, cost validation of the simple orchestrator
\* answers without raising and without asking for a revision, and the run goes
\* on from VALIDATING_COSTS to the next phase.
C12_UnsetBudgetProceeds ==
    [][(pc = "cost" /\ variant = "simple" /\ request.max_budget = None)
       => /\ thrown' = "none"
          /\ ~response'.requires_revision
          /\ revision_count' = revision_count
          /\ state' = WRITING_PROPOSAL
          /\ pc' = "write"]_vars

\* the plan costs more than 30% above max_budget
Over30Pct(arg) == 10 * (arg.total_cost - arg.max_budget) > 3 * arg.max_budget

\* C13 as stated: for every set max_budget and every error_margin the simple
\* costing agent asks for a revision, with feedback about the overage, exactly
\* when total_cost exceeds max_budget by more than 30%.
C13_RevisionAbove30Pct ==
    (applied.op = "validate_costs" /\ IsSet(applied.arg.max_budget))
        => /\ applied.res.requires_revision <=> Over30Pct(applied.arg)
           /\ applied.res.feedback.kind = "overage" <=> Over30Pct(applied.arg)

\* C13, amended: for every set max_budget and every error_margin the simple
\* costing agent asks for a revision, with feedback about the overage, exactly
\* when the plan is not within budget (total_cost > max_budget * (1 +
\* error_margin)) and total_cost exceeds max_budget by more than 30%.  For an
\* error_margin of at most 30% that is exactly when the overage is more than 30%:
\* an overage of exactly 30% does not trigger a revision, one of 31% does.
C13_RevisionRule ==
    (applied.op = "validate_costs" /\ IsSet(applied.arg.max_budget))
        => /\ applied.res.requires_revision
                <=> (~applied.res.success /\ Over30Pct(applied.arg))
           /\ applied.res.feedback.kind = "overage" <=> applied.res.requires_revision
           /\ applied.arg.error_margin <= 30
                => (applied.res.requires_revision <=> Over30Pct(applied.arg))
           /\ (applied.arg.max_budget = 1000 /\ applied.arg.total_cost = 1300)
                => ~applied.res.requires_revision
           /\ (/\ applied.arg.max_budget = 1000
               /\ applied.arg.total_cost = 1310
               /\ applied.arg.error_margin <= 30) => applied.res.requires_revision

\* a plan 31% above the budget was validated with an error margin of 50%: it
\* is within budget and no revision is asked for
C13_Witness ==
    /\ applied.op = "validate_costs"
    /\ applied.arg.max_budget = Budget
    /\ applied.arg.total_cost = 1310
    /\ applied.arg.error_margin = 50
    /\ applied.res.success
    /\ ~applied.res.requires_revision

\* the answer of the simple costing agent to the recorded arguments when the
\* advisory call is answered by `advisory`
AnswerWith(advisory) ==
    SimpleValidateCosts([NoPlan EXCEPT !.id = 1, !.total_cost = applied.arg.total_cost],
                        applied.arg.max_budget, applied.arg.error_margin, advisory)

\* C14: the simple costing agent asks the model for an analysis exactly when
\* max_budget is set and total_cost is above 80% of it, and the analysis is
\* advisory only: requires_revision and success (and whether the call raises)
\* are the same whatever the analysis says and whether or not it fails.
C14_AnalysisAdvisoryOnly ==
    applied.op = "validate_costs"
        => /\ applied.res.llm_calls \in {0, 1}
           /\ applied.res.llm_calls = 1
                <=> /\ IsSet(applied.arg.max_budget)
                    /\ 5 * applied.arg.total_cost > 4 * applied.arg.max_budget
           /\ \A advisory \in AdvisoryReplies :
                /\ AnswerWith(advisory).success = applied.res.success
                /\ AnswerWith(advisory).requires_revision = applied.res.requires_revision
                /\ AnswerWith(advisory).raises = applied.res.raises
                /\ AnswerWith(advisory).llm_calls = applied.res.llm_calls

\* the analysis was asked for a plan just above 80% of the budget and the call
\* failed; the plan is within budget all the same
C14_Witness ==
    /\ applied.op = "validate_costs"
    /\ applied.arg.max_budget = Budget
    /\ applied.arg.total_cost = 801
    /\ applied.arg.advisory = "call_fails"
    /\ applied.res.llm_calls = 1
    /\ applied.res.success
    /\ applied.res.feedback = NoFeedback

RECURSIVE SumTo(_, _)
\* values[1] + ... + values[n], added from the left in float arithmetic
SumTo(values, n) == IF n = 0 THEN 0 ELSE Float(SumTo(values, n - 1) + values[n])

RECURSIVE ExactSumTo(_, _)
\* values[1] + ... + values[n] as numbers
ExactSumTo(values, n) == IF n = 0 THEN 0 ELSE ExactSumTo(values, n - 1) + values[n]

\* hours * rate of every task, of the mandatory tasks and of the other tasks
Products(tasks) == [i \in 1 .. Len(tasks) |-> tasks[i].hours * tasks[i].rate]

MandatoryProducts(tasks) ==
    [i \in 1 .. Len(tasks) |->
        IF tasks[i].priority = "mandatory" THEN tasks[i].hours * tasks[i].rate ELSE 0]

OtherProducts(tasks) ==
    [i \in 1 .. Len(tasks) |->
        IF tasks[i].priority \in {"optional", "nice_to_have"}
        THEN tasks[i].hours * tasks[i].rate ELSE 0]

\* no product and no partial sum of the task list needs more digits than a
\* float holds, so nothing is rounded
NothingRounded(tasks) ==
    ExactSumTo([i \in 1 .. Len(tasks) |-> Abs(tasks[i].hours * tasks[i].rate)],
               Len(tasks)) < 2^MantissaBits

Recomputed(plan) ==
    LET n == Len(plan.tasks)
    IN  /\ plan.total_hours = SumTo(Hours(plan.tasks), n)
        /\ plan.total_cost
             = SumTo([i \in 1 .. n |-> Float(Products(plan.tasks)[i])], n)
        /\ plan.mandatory_cost
             = SumTo([i \in 1 .. n |-> Float(MandatoryProducts(plan.tasks)[i])], n)
        /\ plan.optional_cost = Float(plan.total_cost - plan.mandatory_cost)

\* C16: every plan the translator hands on (parsed, revised or fallback) carries
\* aggregates equal to the ones recomputed from its tasks, so cost validation,
\* the writer, the reviewer and the output never see the zeros of construction.
C16_AggregatesRecomputed ==
    /\ current_plan # NoPlan
         => Recomputed(current_plan) /\ current_plan.total_cost > 0
    /\ output.execution_plan # NoPlan
         => Recomputed(output.execution_plan) /\ output.execution_plan.total_cost > 0

\* cost validation is about to read a fallback plan that a revision returned
C16_Witness ==
    /\ pc = "cost"
    /\ calls.translate = 2
    /\ current_plan.fallback
    /\ current_plan.id = 2
    /\ current_plan.total_hours = 80
    /\ current_plan.total_cost = 80 * HourlyRate
    /\ current_plan.optional_cost = 10 * HourlyRate

\* the Priority value the normalisation is to give a spelling: upper and lower
\* case and hyphens do not matter, anything else is mandatory
Expected(raw) ==
    CASE raw \in {<<"o", "p", "t", "i", "o", "n", "a", "l">>,
                  <<"O", "p", "t", "i", "o", "n", "a", "l">>} -> "optional"
      [] raw \in {<<"n", "i", "c", "e", "_", "t", "o", "_", "h", "a", "v", "e">>,
                  <<"N", "I", "C", "E", "_", "T", "O", "_", "H", "A", "V", "E">>,
                  <<"n", "i", "c", "e", "-", "t", "o", "-", "h", "a", "v", "e">>,
                  <<"N", "i", "c", "e", "-", "T", "o", "-", "H", "a", "v", "e">>} -> "nice_to_have"
      [] OTHER -> "mandatory"

\* C17: when a task is built, its priority string is lower-cased, hyphens become
\* underscores and any value outside mandatory / optional / nice_to_have becomes
\* mandatory; normalising twice gives the same as normalising once; the plan
\* keeps every task whatever its priority string.
C17_PriorityNormalized ==
    /\ applied.op = "normalize_priority"
         => /\ Priority(applied.res) = Expected(applied.arg)
            /\ NormalizePriority(applied.res) = applied.res
    /\ (applied.op = "create_execution_plan" /\ applied.arg.reply.kind = "json")
         => /\ applied.res.raises = "none"
            /\ Len(applied.res.plan.tasks) = Len(applied.arg.reply.tasks)
            /\ \A i \in 1 .. Len(applied.arg.reply.tasks) :
                 applied.res.plan.tasks[i].priority
                   = Expected(applied.arg.reply.tasks[i].priority)

\* the translator was called on a model output without a JSON object
NoJsonTranslated ==
    /\ applied.op = "create_execution_plan"
    /\ applied.arg.reply.kind \in {"not_json", "call_fails"}

\* C18 as stated: when the model's translation output contains no '{' ... '}'
\* pair, create_execution_plan raises nothing and returns the fallback plan:
\* exactly five tasks, each at the profile's hourly rate, all mandatory.
C18_FallbackAllMandatory ==
    NoJsonTranslated
        => /\ applied.res.raises = "none"
           /\ applied.res.plan.fallback
           /\ Len(applied.res.plan.tasks) = 5
           /\ \A i \in 1 .. Len(applied.res.plan.tasks) :
                /\ applied.res.plan.tasks[i].rate = applied.arg.rate
                /\ applied.res.plan.tasks[i].priority = "mandatory"

\* C18, amended: when the model's translation output contains no '{' ... '}'
\* pair, create_execution_plan of the simple translator raises nothing and
\* returns the fallback plan: exactly five tasks, each at the profile's hourly
\* rate, the first four mandatory and the fifth optional.
C18_FallbackPlan ==
    (NoJsonTranslated /\ variant = "simple")
        => /\ applied.res.raises = "none"
           /\ applied.res.plan.fallback
           /\ Len(applied.res.plan.tasks) = 5
           /\ \A i \in 1 .. Len(applied.res.plan.tasks) :
                /\ applied.res.plan.tasks[i].rate = applied.arg.rate
                /\ applied.res.plan.tasks[i].priority
                     = (IF i <= 4 THEN "mandatory" ELSE "optional")
           /\ Recomputed(applied.res.plan)
           /\ applied.res.plan.optional_cost = 10 * applied.arg.rate

\* the simple translator answered a failed model call with the fallback plan at
\* a profile rate of 50
C18_Witness ==
    /\ NoJsonTranslated
    /\ variant = "simple"
    /\ applied.arg.rate = 50
    /\ applied.arg.reply.kind = "call_fails"
    /\ applied.res.plan.fallback
    /\ applied.res.plan.total_cost = 80 * 50

\* C19: the translate phase always succeeds: for every model output, on the
\* first translation and on every re-translation during a revision, the
\* translator returns a plan, so no run ends in FAILED because of translation.
C19_TranslateAlwaysSucceeds ==
    [][(pc \in {"translate", "cost_revise", "technical_revise"})
       => /\ thrown' = "none"
          /\ state' # FAILED
          /\ calls'.translate = calls.translate + 1
          /\ calls'.translate = last_translated']_vars

\* C20: when the model's output for cost validation or for the review cannot be
\* decoded or lacks an expected key, the agent returns a response with success =
\* true and requires_revision = false and a placeholder note as feedback; it
\* raises nothing, so the run is neither revised nor aborted.
C20_DefaultAccept ==
    (/\ applied.op \in {"decision", "review"}
     /\ applied.arg.kind \in {"not_json", "bad_keys", "unparseable"})
        => /\ applied.res.raises = "none"
           /\ applied.res.success
           /\ ~applied.res.requires_revision
           /\ applied.res.feedback.kind = "placeholder"

\* C21: a failing model invocation is never raised past the agent facade: the
\* translation yields the fallback plan, the writing yields the error-marker
\* string as the proposal text and the review yields a non-revising response; so
\* a run of the simple orchestrator with max_budget set in which model calls
\* fail, here the call of the writer that produced the proposal text, still
\* ends in COMPLETED.
C21_FailedCallsStillComplete ==
    (/\ variant = "simple"
     /\ IsSet(request.max_budget)
     /\ current_proposal.marker
     /\ pc = "idle")
        => /\ state = COMPLETED
           /\ thrown = "none"
           /\ output.proposal_text = current_proposal

\* the lines of a reply
LinesOf(reply) == {reply[i] : i \in 1 .. Len(reply)}

\* the reply holds a WOULD_HIRE line saying no / holds no WOULD_HIRE line
HireNegative(reply) == WouldHireLine(FALSE) \in LinesOf(reply)
HireMissing(reply) == LinesOf(reply) \cap {WouldHireLine(TRUE), WouldHireLine(FALSE)} = {}

\* the reply holds no SCORE line
ScoreMissing(reply) ==
    LinesOf(reply) \cap ({ScoreLine(tenths) : tenths \in RawScores} \cup OtherScoreLines) = {}

\* the decisions the review parsing takes on a score
DecidedOn(reply, score) ==
    /\ applied.res.overall_score = score
    /\ applied.res.success <=> score >= 70
    /\ applied.res.requires_revision
         <=> (score < 70 \/ HireNegative(reply) \/ (HireMissing(reply) /\ score < 70))

\* C22 as claimed: review parsing takes the score to be the numerator of the
\* X/10 token on the SCORE line, or 7.0 when no SCORE line is present; success
\* holds exactly when score >= 7.0, requires_revision exactly when score < 7.0
\* or the WOULD_HIRE decision is negative (a missing WOULD_HIRE line counts as
\* positive exactly when score >= 7).
C22_ScoreIsNumerator ==
    applied.op = "parse_review_response"
        => /\ \A tenths \in RawScores :
                ScoreLine(tenths) \in LinesOf(applied.arg) => DecidedOn(applied.arg, tenths)
           /\ LowerCaseScoreLine \in LinesOf(applied.arg) => DecidedOn(applied.arg, 50)
           /\ BoldScoreLine \in LinesOf(applied.arg) => DecidedOn(applied.arg, 80)
           /\ ScoreMissing(applied.arg) => DecidedOn(applied.arg, DefaultScore)
           /\ HireNegative(applied.arg) => applied.res.requires_revision

\* C22: review parsing reads, on the first line holding "SCORE:" in any case,
\* the text between the first colon and the next slash.  If it is a number, that
\* is the score; without such a line the score is 7.0; in both cases success
\* holds exactly when score >= 7.0 and requires_revision exactly when score < 7.0
\* or the WOULD_HIRE line does not say yes (a missing line counts as positive
\* exactly when score >= 7).  If the text is not a number the default review is
\* returned: score 7.5, success, no revision, whatever the WOULD_HIRE line says.
C22_ReviewParsing ==
    applied.op = "parse_review_response"
        => /\ \A tenths \in RawScores :
                ScoreLine(tenths) \in LinesOf(applied.arg) => DecidedOn(applied.arg, tenths)
           /\ LowerCaseScoreLine \in LinesOf(applied.arg) => DecidedOn(applied.arg, 50)
           /\ BareScoreLine \in LinesOf(applied.arg) => DecidedOn(applied.arg, 80)
           /\ ScoreMissing(applied.arg) => DecidedOn(applied.arg, DefaultScore)
           /\ LinesOf(applied.arg) \cap {BoldScoreLine, NoNumberScoreLine} # {}
                => /\ applied.res.overall_score = FallbackReviewScore
                   /\ applied.res.success
                   /\ ~applied.res.requires_revision

\* a review of 8/10 that would not hire: accepted and to be revised
C22_Witness ==
    /\ applied.op = "parse_review_response"
    /\ applied.arg = <<ScoreLine(80), WouldHireLine(FALSE)>>
    /\ applied.res.overall_score = 80
    /\ applied.res.success
    /\ applied.res.requires_revision

\* the run of the scenario: the request with a budget of 4000, the plan of three
\* tasks and 60 hours at a rate of 50 in the context, and a last review of 8/10
\* that asks for no revision
ScenarioRun ==
    /\ request = ScenarioRequest
    /\ current_plan.tasks = SimpleTasks(ScenarioTasks)
    /\ response.overall_score = 80
    /\ ~response.requires_revision
    /\ response.reviewed > 0

\* C23: with max_budget = 4000, error_margin = 0.1 and express_mode = false, a
\* model that returns a valid plan of three tasks, 60 hours at rate 50, and a
\* review of 8/10 that would hire, the run completes with execution_plan.total_cost
\* = 3000, quality_score = 0.8 (overall_score / 10) and estimated_win_probability
\* = the review's win percentage / 100; in the simple orchestrator, where plan
\* and review are all the model decides, a first run does so with revision_count = 0.
C23_EndToEndScenario ==
    (ScenarioRun /\ pc = "idle")
        => /\ state = COMPLETED
           /\ output.execution_plan.total_cost = 3000
           /\ output.execution_plan.total_hours = 60
           /\ output.quality_score = 80
           /\ output.estimated_win_probability = response.win_probability
           /\ output.estimated_win_probability =
                 (IF variant = "simple" THEN 80 ELSE 60)
           /\ (variant = "simple" /\ runs = 1) => revision_count = 0

C23_Witness ==
    /\ ScenarioRun
    /\ variant = "simple"
    /\ runs = 1
    /\ state = COMPLETED
    /\ revision_count = 0
    /\ output.execution_plan.total_cost = 3000
    /\ output.quality_score = 80

\* C24: every Proposal Output has 0 <= quality_score <= 1 and
\* 0 <= estimated_win_probability <= 1, for every review score and win
\* percentage the model can put in its answer, scores above 10 included.
C24_ScoresInUnitInterval ==
    output # NoOutput
        => /\ 0 <= output.quality_score /\ output.quality_score <= 100
           /\ 0 <= output.estimated_win_probability
           /\ output.estimated_win_probability <= 100

\* C25: an express run makes exactly two model calls, the translation and then
\* the writing, never calls cost validation, technical validation or review,
\* never enters a revision loop, and returns a Proposal Output whose
\* quality_score is 0.75 whatever the model answers.
C25_ExpressRun ==
    (pc = "idle" /\ runs > 0)
        => /\ calls = [NoCalls EXCEPT !.translate = 1, !.write = 1]
           /\ revision_count = 0
           /\ reinvoked = NoReinvocations
           /\ thrown = "none"
           /\ output # NoOutput
           /\ output.quality_score = ExpressQualityScore

\* the run in flight, or just ended, has reached the writing of the proposal
WritingReached == pc = "write" \/ calls.write > 0

\* C26: in the full orchestrator, with express_mode = true the state
\* VALIDATING_TECHNICAL is never entered and the technical validator is never
\* called; with express_mode = false the technical validator is called exactly
\* once, after cost validation and before the writing.
C26_TechnicalValidationOnce ==
    (variant = "full" /\ runs > 0)
        => /\ request.express_mode
                => (state # VALIDATING_TECHNICAL /\ calls.technical = 0
                      /\ pc \notin {"technical", "technical_revise"})
           /\ (~request.express_mode /\ WritingReached) => calls.technical = 1
           /\ pc = "technical"
                => (calls.technical = 0 /\ calls.cost >= 1 /\ calls.write = 0)
           /\ calls.technical <= 1

C26_Witness ==
    /\ variant = "full"
    /\ ~request.express_mode
    /\ state = COMPLETED
    /\ cost_caller = "technical"
    /\ calls.technical = 1
    /\ calls.cost >= 2

\* C27: whenever a technical-feasibility revision is granted, cost validation is
\* run again, on the revised plan, before the first writing call of the run:
\* once the revised plan is stored the writing is only reached with that plan
\* validated by a further call of the costing agent.
C27_CostsRevalidatedAfterTechnicalRevision ==
    (variant = "full" /\ cost_caller = "technical")
        => /\ current_plan.id >= 2
           /\ calls.technical = 1
           /\ calls.write = 0 => pc \in {"cost", "cost_revise", "write", "idle"}
           /\ (pc = "idle" /\ calls.write = 0) => state = FAILED
           /\ WritingReached
                => /\ validated = current_plan.id
                   /\ calls.cost >= 2

C27_Witness ==
    /\ variant = "full"
    /\ cost_caller = "technical"
    /\ pc = "write"
    /\ calls.write = 0
    /\ current_plan.id = 2
    /\ validated = 2
    /\ calls.cost = 2

\* C28: a run returns at most one Proposal Output, and exactly when it ends in
\* COMPLETED: in state COMPLETED the output assembled from the finished review
\* of the final proposal text has been returned; a run that ends in FAILED
\* returns none.
C28_OutputExactlyWhenCompleted ==
    /\ [](/\ output # NoOutput <=> state = COMPLETED
          /\ state = COMPLETED
               => /\ pc = "idle"
                  /\ thrown = "none"
                  /\ output.proposal_text = current_proposal
                  /\ output.execution_plan = current_plan
                  /\ output.reviewed = last_written
                  /\ response.reviewed = last_written
                  /\ last_written > 0
          /\ state = FAILED => (output = NoOutput /\ raised # "none"))
    /\ [][output' # output
            => \/ output = NoOutput /\ state' = COMPLETED /\ pc' = "idle"
               \/ output' = NoOutput /\ pc = "idle" /\ pc' = "translate"]_vars

C28_Witness ==
    /\ state = COMPLETED
    /\ output # NoOutput
    /\ calls.write = 2
    /\ output.reviewed = 2
    /\ runs = 2

\* C29: FAILED is absorbing: once the state is FAILED no later operation on that
\* orchestrator, another call of generate_proposal included, moves the state
\* elsewhere.
C29_FailedIsAbsorbing == [][state = FAILED => state' = FAILED]_vars

\* C30: at the start of each generation run revision_count is 0, and
\* max_revisions is fixed for the run, so every run can be granted up to
\* max_revisions revisions, whatever earlier runs were executed on the instance.
C30_CounterZeroAtRunStart ==
    /\ [][(pc = "idle" /\ pc' = "translate") => revision_count' = 0]_vars
    /\ [][max_revisions' = max_revisions]_vars

\* the number of agent calls made so far in the run
CallsMade(made) == made.translate + made.cost + made.technical + made.write + made.review

\* C31: within one run the agent calls are issued strictly one at a time and in
\* phase order: every step of a run is one call, which has returned or raised
\* when the next one starts; every translation, cost-validation and technical
\* call happens before the first writing call, and the first review call
\* happens after the first writing call.
C31_CallsOneAtATimeInPhaseOrder ==
    /\ [][(pc # "idle") => CallsMade(calls') = CallsMade(calls) + 1]_vars
    /\ [][(pc = "idle") => CallsMade(calls') = 0]_vars
    /\ [][(pc # "idle" /\ WritingReached)
            => /\ calls'.translate = calls.translate
               /\ calls'.cost = calls.cost
               /\ calls'.technical = calls.technical]_vars
    /\ [][(calls'.review > calls.review) => calls.write >= 1]_vars
    /\ [][(calls'.write > calls.write /\ calls.write = 0)
            => (calls.translate >= 1 /\ calls.cost >= 1 /\ calls.review = 0)]_vars

C31_Witness ==
    /\ state = COMPLETED
    /\ variant = "full"
    /\ calls.translate = 2
    /\ calls.cost = 2
    /\ calls.technical = 1
    /\ calls.write = 2
    /\ calls.review = 2

\* the entries of a list
Entries(list) == {list[i] : i \in 1 .. Len(list)}

\* the budget-, revision- and task-based advice as the full orchestrator gives it
AdviceByThresholds ==
    LET in == applied.arg
        given == Entries(applied.res)
    IN  /\ AddScope \in given
             <=> (IsSet(in.max_budget) /\ in.total_cost * 100 < 70 * in.max_budget)
        /\ Contingency \in given
             <=> (IsSet(in.max_budget) /\ in.total_cost * 100 > 95 * in.max_budget)
        /\ ExcessRevisions \in given <=> in.revisions > 1
        /\ Regroup \in given <=> in.tasks > 10

\* C32 as claimed: in final assembly the add-scope advice is present exactly
\* when max_budget is set and utilization < 0.7, the contingency advice exactly
\* when utilization > 0.95, the excess-revisions flag exactly when
\* revision_count > 1 and the regrouping flag exactly when the plan has more
\* than 10 tasks.
C32_RecommendationsByThresholds ==
    applied.op = "generate_recommendations" => AdviceByThresholds

\* C32: the full orchestrator gives the advice by these thresholds (the
\* boundaries 0.7, 0.95, 1 and 10 produce no entry); the simple orchestrator's
\* recommendations depend on the review and on revision_count alone: it flags
\* excess revisions exactly when revision_count > 1 and never advises on scope,
\* contingency or regrouping.
C32_Recommendations ==
    applied.op = "generate_recommendations"
        => IF variant = "full" THEN AdviceByThresholds
           ELSE /\ Entries(applied.res) \cap {AddScope, Contingency, Regroup} = {}
                /\ ExcessRevisions \in Entries(applied.res) <=> applied.arg.revisions > 1

C32_Witness ==
    /\ applied.op = "generate_recommendations"
    /\ variant = "full"
    /\ applied.arg.max_budget = 100
    /\ applied.arg.total_cost = 69
    /\ applied.arg.revisions = 2
    /\ applied.arg.tasks = 11
    /\ applied.arg.notes = <<>>
    /\ applied.res = <<AddScope, ExcessRevisions, Regroup>>

\* an express run has ended and neither of its two model calls failed
ExpressCallsReturned ==
    /\ pc = "idle"
    /\ runs > 0
    /\ calls = [NoCalls EXCEPT !.translate = 1, !.write = 1]
    /\ thrown # "LLMError"

\* C33: every express run whose two model calls return produces a Proposal
\* Output whose reviewer_feedback is a list of strings, whose recommendations
\* include the advice to perform full validation and whose
\* estimated_win_probability is a fixed placeholder between 0.6 and 0.65; the
\* express entry point does not raise when building the output.
C33_ExpressOutputBuilt ==
    ExpressCallsReturned
        => /\ thrown = "none"
           /\ output # NoOutput
           /\ output.reviewer_feedback.type = "list"
           /\ FullValidation \in Entries(output.recommendations)
           /\ output.estimated_win_probability \in 60 .. 65

\* C34: every Agent Response returned by the simple cost-validation agent is
\* coherent: requires_revision = true implies success = false, a feedback and
\* next_agent = business_translator; requires_revision = false implies
\* next_agent = commercial_writer; and data.requires_revision equals the
\* response's requires_revision.
C34_CostResponseCoherent ==
    (applied.op = "validate_costs" /\ applied.res.raises = "none")
        => /\ applied.res.requires_revision
                => /\ ~applied.res.success
                   /\ applied.res.feedback # NoFeedback
                   /\ applied.res.next_agent = "business_translator"
           /\ ~applied.res.requires_revision
                => applied.res.next_agent = "commercial_writer"
           /\ applied.res.data.requires_revision = applied.res.requires_revision

\* a plan 31% over the budget with a 10% margin: the response asks for a revision
C34_Witness ==
    /\ applied.op = "validate_costs"
    /\ applied.arg.max_budget = Budget
    /\ applied.arg.total_cost = 1310
    /\ applied.arg.error_margin = DefaultErrorMargin
    /\ applied.res.raises = "none"
    /\ applied.res.requires_revision
    /\ applied.res.next_agent = "business_translator"

\* C35: review-phase revisions never change the execution plan: from the first
\* writing call to the end of the run the plan is unchanged, so the Proposal
\* Output's execution_plan is the plan that left the validation phases, however
\* many review revisions were granted.
C35_PlanUnchangedFromWriting ==
    /\ [][(pc \in {"write", "review", "review_revise"})
              => current_plan' = current_plan]_vars
    /\ [](output # NoOutput => output.execution_plan = current_plan)

\* a run ended with an output after the writer was re-invoked on a review
C35_Witness ==
    /\ pc = "idle"
    /\ output # NoOutput
    /\ calls.write = 1 + MaxRevisionCycles
    /\ calls.review = 1 + MaxRevisionCycles
    /\ current_plan # NoPlan
    /\ output.execution_plan = current_plan

\* the answer of the simple cost-validation agent to the plan at hand
CostAnswer(advisory) ==
    SimpleValidateCosts(current_plan, request.max_budget, request.error_margin, advisory)

\* C36: the simple cost-validation agent treats a max_budget of 0 like an unset
\* budget: whatever the plan costs it reports within_budget = true and
\* requires_revision = false, makes no advisory model call and reports
\* budget_utilization 0, so no cost revision is ever granted in such a run.
C36_ZeroBudgetIsUnset ==
    /\ []((variant = "simple" /\ pc = "cost" /\ request.max_budget = 0)
            => \A advisory \in AdvisoryReplies :
                   /\ CostAnswer(advisory).raises = "none"
                   /\ CostAnswer(advisory).success
                   /\ CostAnswer(advisory).data.within_budget
                   /\ ~CostAnswer(advisory).requires_revision
                   /\ CostAnswer(advisory).llm_calls = 0
                   /\ CostAnswer(advisory).data.budget_utilization = 0)
    /\ [][(variant = "simple" /\ pc = "cost" /\ request.max_budget = 0)
              => /\ pc' = "write"
                 /\ revision_count' = revision_count
                 /\ ~response'.requires_revision]_vars

\* a run with max_budget = 0 whose plan costs something has passed the cost
\* validation at the first attempt and gone on to the writer
C36_Witness ==
    /\ variant = "simple"
    /\ request.max_budget = 0
    /\ pc = "write"
    /\ current_plan.total_cost > 0
    /\ calls.cost = 1
    /\ calls.translate = 1
    /\ ~response.requires_revision

\* 0.9 and 0.75 as floats
NinetyPercent == FloatDiv(90 * FloatUnit, 100)
SeventyFivePercent == FloatDiv(75 * FloatUnit, 100)

\* the two metrics of an output are the same float
MetricsEqual == applied.res.estimated_win_probability = applied.res.quality_score

\* the two metrics of an output are the same float or neighbouring floats
MetricsWithinOneRounding ==
    Abs(applied.res.estimated_win_probability - applied.res.quality_score)
        <= Quantum(applied.res.quality_score)

\* what C37 says of every output but the equality of the two metrics
C37_CapAndDefaults ==
    /\ applied.res.estimated_win_probability <= NinetyPercent
    /\ (applied.arg.parsed /\ applied.arg.score >= 90)
           => applied.res.estimated_win_probability = NinetyPercent
    /\ ~applied.arg.parsed
           => /\ applied.res.quality_score = SeventyFivePercent
              /\ applied.res.estimated_win_probability = SeventyFivePercent

NonBlank(weaknesses) == SelectSeq(weaknesses, LAMBDA weakness : strip(weakness) # <<>>)

\* C38: the recommendations of a SimpleProposalOrchestrator output are never
\* empty; the placeholder 'Proposal looks good - ready for submission!' is the
\* only entry exactly when the review has no non-blank weakness, the score is at
\* least 8.0 and revision_count <= 1; a score below 7.0 always yields both the
\* value-proposition and the significant-improvement entries.
C38_SimpleRecommendationsNeverEmpty ==
    (applied.op = "generate_recommendations" /\ variant = "simple")
        => /\ applied.res # <<>>
           /\ applied.res = <<ReadyForSubmission>>
                <=> /\ NonBlank(applied.arg.notes) = <<>>
                    /\ applied.arg.score >= 80
                    /\ applied.arg.revisions <= 1
           /\ ReadyForSubmission \in Entries(applied.res)
                => applied.res = <<ReadyForSubmission>>
           /\ applied.arg.score < 70
                => {ValueProposition, SignificantImprovement} \subseteq Entries(applied.res)

\* a review with a score of exactly 8.0 and one blank weakness, after one
\* revision: the placeholder alone
C38_Witness ==
    /\ applied.op = "generate_recommendations"
    /\ variant = "simple"
    /\ applied.arg.notes = << <<" ">> >>
    /\ applied.arg.score = 80
    /\ applied.arg.revisions = 1
    /\ applied.res = <<ReadyForSubmission>>

====
